---------------------------- MODULE Spec2Model ----------------------------
(***************************************************************************)
(* Hybrid geocoding pipeline for community-center addresses:               *)
(*   scripts/02_geocode_hybrid.py   geocoding phase (Nominatim, Google)    *)
(*   scripts/03_compute_distances.py reconciliation phase                  *)
(*                                                                         *)
(* Representation of Python values                                         *)
(*   - a text is a sequence of characters; a character is a one-symbol     *)
(*     TLA+ string.  Cyrillic letters are written "^X" (upper case) and    *)
(*     "^x" (lower case), X being an ASCII mnemonic of the letter, since   *)
(*     the module text is ASCII.  The code only ever tests texts for       *)
(*     truthiness, so the missing text (None) and the empty text are both  *)
(*     the empty sequence.                                                 *)
(*   - an optional number or record is a sequence of length at most one:   *)
(*     None is << >>, the value v is <<v>>.                                *)
(*   - a coordinate is an integer number of grid units of 0.005 degree;    *)
(*     the value 0 is the float 0.0 (which Python treats as false).        *)
(***************************************************************************)
EXTENDS Integers, Sequences, FiniteSets, TLC

VARIABLES
    db,            \* table community_centers: sequence of rows, ordered by id
    phase,         \* which script is running: "geocode", "recon", "done"
    idx,           \* position of the phase's loop in its record list
    pc,            \* position inside the geocoding loop body
    nom_cache,     \* NominatimGeocoder.cache: rows of the table cache
    g_cache,       \* GoogleGeocoder.cache: rows of the table cache
    records,       \* geocode_records: ids of the rows selected for geocoding
    nom_result,    \* geocode_records: nom_result of the current record
    google_result, \* geocode_records: google_result of the current record
    result_data,   \* NominatimGeocoder.geocode: local result_data
    fb_idx,        \* NominatimGeocoder.geocode: position in queries_to_try
    requests,      \* outbound Nominatim requests of the current lookup
    g_requests,    \* responses to the Google requests of the current record
    stats,         \* geocode_records: stats counters
    elapsed,       \* _rate_limit: time.time() - last_request_time, in ticks
    stamp_gap,     \* time between the stamps of the last two requests
    call           \* a function applied on its own: arguments and result

vars == <<db, phase, idx, pc, nom_cache, g_cache, records, nom_result,
          google_result, result_data, fb_idx, requests, g_requests, stats,
          elapsed, stamp_gap, call>>

---------------------------------------------------------------------------
(* Optional values *)

None == << >>

Some(v) == <<v>>

IsNone(o) == o = << >>

Val(o) == o[1]

\* Python truthiness of an optional number: None and 0 are false
Truthy(o) == o # << >> /\ o[1] # 0

NoneTag == "None"

---------------------------------------------------------------------------
(* Texts *)

UpperPairs ==
  {
    <<"^a", "^A">>, <<"^b", "^B">>, <<"^v", "^V">>, <<"^g", "^G">>,
    <<"^d", "^D">>, <<"^e", "^E">>, <<"^zh", "^ZH">>, <<"^z", "^Z">>,
    <<"^i", "^I">>, <<"^j", "^J">>, <<"^k", "^K">>, <<"^l", "^L">>,
    <<"^m", "^M">>, <<"^n", "^N">>, <<"^o", "^O">>, <<"^p", "^P">>,
    <<"^r", "^R">>, <<"^s", "^S">>, <<"^t", "^T">>, <<"^u", "^U">>,
    <<"^f", "^F">>, <<"^h", "^H">>, <<"^c", "^C">>, <<"^ch", "^CH">>,
    <<"^sh", "^SH">>, <<"^sht", "^SHT">>, <<"^w", "^W">>, <<"^q", "^Q">>,
    <<"^yu", "^YU">>, <<"^ya", "^YA">>, <<"a", "A">>, <<"b", "B">>,
    <<"c", "C">>, <<"d", "D">>, <<"e", "E">>, <<"f", "F">>, <<"g", "G">>,
    <<"h", "H">>, <<"i", "I">>, <<"j", "J">>, <<"k", "K">>, <<"l", "L">>,
    <<"m", "M">>, <<"n", "N">>, <<"o", "O">>, <<"p", "P">>, <<"q", "Q">>,
    <<"r", "R">>, <<"s", "S">>, <<"t", "T">>, <<"u", "U">>, <<"v", "V">>,
    <<"w", "W">>, <<"x", "X">>, <<"y", "Y">>, <<"z", "Z">>
  }

UpperOf == [c \in {p[1] : p \in UpperPairs} |->
               (CHOOSE p \in UpperPairs : p[1] = c)[2]]

UpperChar(c) == IF c \in DOMAIN UpperOf THEN UpperOf[c] ELSE c

\* str.upper()
Upper(s) == [i \in 1..Len(s) |-> UpperChar(s[i])]

IsSpace(c) == c = " "

RECURSIVE LStrip(_)
LStrip(s) == IF s # << >> /\ IsSpace(Head(s)) THEN LStrip(Tail(s)) ELSE s

RECURSIVE RStrip(_)
RStrip(s) ==
    IF s # << >> /\ IsSpace(s[Len(s)]) THEN RStrip(SubSeq(s, 1, Len(s) - 1))
    ELSE s

\* str.strip()
Strip(s) == RStrip(LStrip(s))

\* str.startswith(p)
StartsWith(s, p) == Len(p) <= Len(s) /\ SubSeq(s, 1, Len(p)) = p

\* sub in s
Contains(s, sub) ==
    \E i \in 0..(Len(s) - Len(sub)) : SubSeq(s, i + 1, i + Len(sub)) = sub

\* s.replace(old, ''), old non-empty: leftmost non-overlapping occurrences
RECURSIVE Remove(_, _)
Remove(s, old) ==
    IF Len(s) < Len(old) THEN s
    ELSE IF StartsWith(s, old)
         THEN Remove(SubSeq(s, Len(old) + 1, Len(s)), old)
         ELSE <<Head(s)>> \o Remove(Tail(s), old)

\* s.replace(' ', '')
NoSpaces(s) == Remove(s, <<" ">>)

\* str.split(): the whitespace-delimited words of s
RECURSIVE SplitFrom(_, _)
SplitFrom(s, word) ==
    IF s = << >> THEN (IF word = << >> THEN << >> ELSE <<word>>)
    ELSE IF IsSpace(Head(s))
         THEN (IF word = << >> THEN << >> ELSE <<word>>)
              \o SplitFrom(Tail(s), << >>)
         ELSE SplitFrom(Tail(s), Append(word, Head(s)))

Split(s) == SplitFrom(s, << >>)

CommaSpace == <<",", " ">>

Bulgaria_bg ==
    <<"^B", "^w", "^l", "^g", "^a", "^r", "^i", "^ya">>

SELO_ == <<"^S", "^E", "^L", "^O", " ">>

GRAD_ == <<"^G", "^R", "^A", "^D", " ">>

---------------------------------------------------------------------------
(* scripts/03_compute_distances.py: pure functions *)

ok_distance_m == 1000

suspicious_distance_m == 5000

min_confidence == 60

\* metres per grid unit: r * pi / 180 * 0.005 with r = 6371000
MetersPerUnit == 556

RECURSIVE SqrtSearch(_, _, _)
SqrtSearch(n, lo, hi) ==
    IF lo = hi THEN lo
    ELSE LET mid == (lo + hi + 1) \div 2
         IN  IF mid * mid <= n THEN SqrtSearch(n, mid, hi)
             ELSE SqrtSearch(n, lo, mid - 1)

ISqrt(n) == SqrtSearch(n, 0, 46340)

\* haversine_distance: None when an argument is None, else the distance in
\* metres (great-circle distance of nearby grid points: the planar distance)
haversine_distance(lat1, lon1, lat2, lon2) ==
    IF None \in {lat1, lon1, lat2, lon2} THEN None
    ELSE LET dlat == Val(lat2) - Val(lat1)
             dlon == Val(lon2) - Val(lon1)
         IN  Some(ISqrt((dlat * dlat + dlon * dlon)
                        * MetersPerUnit * MetersPerUnit))

transliteration_map ==
  {
    <<"^A", <<"A">>>>, <<"^B", <<"B">>>>, <<"^V", <<"V">>>>,
    <<"^G", <<"G">>>>, <<"^D", <<"D">>>>, <<"^E", <<"E">>>>,
    <<"^ZH", <<"Z", "h">>>>, <<"^Z", <<"Z">>>>, <<"^I", <<"I">>>>,
    <<"^J", <<"Y">>>>, <<"^K", <<"K">>>>, <<"^L", <<"L">>>>,
    <<"^M", <<"M">>>>, <<"^N", <<"N">>>>, <<"^O", <<"O">>>>,
    <<"^P", <<"P">>>>, <<"^R", <<"R">>>>, <<"^S", <<"S">>>>,
    <<"^T", <<"T">>>>, <<"^U", <<"U">>>>, <<"^F", <<"F">>>>,
    <<"^H", <<"H">>>>, <<"^C", <<"T", "s">>>>, <<"^CH", <<"C", "h">>>>,
    <<"^SH", <<"S", "h">>>>, <<"^SHT", <<"S", "h", "t">>>>,
    <<"^W", <<"A">>>>, <<"^Q", <<"Y">>>>, <<"^YU", <<"Y", "u">>>>,
    <<"^YA", <<"Y", "a">>>>, <<"^a", <<"a">>>>, <<"^b", <<"b">>>>,
    <<"^v", <<"v">>>>, <<"^g", <<"g">>>>, <<"^d", <<"d">>>>,
    <<"^e", <<"e">>>>, <<"^zh", <<"z", "h">>>>, <<"^z", <<"z">>>>,
    <<"^i", <<"i">>>>, <<"^j", <<"y">>>>, <<"^k", <<"k">>>>,
    <<"^l", <<"l">>>>, <<"^m", <<"m">>>>, <<"^n", <<"n">>>>,
    <<"^o", <<"o">>>>, <<"^p", <<"p">>>>, <<"^r", <<"r">>>>,
    <<"^s", <<"s">>>>, <<"^t", <<"t">>>>, <<"^u", <<"u">>>>,
    <<"^f", <<"f">>>>, <<"^h", <<"h">>>>, <<"^c", <<"t", "s">>>>,
    <<"^ch", <<"c", "h">>>>, <<"^sh", <<"s", "h">>>>,
    <<"^sht", <<"s", "h", "t">>>>, <<"^w", <<"a">>>>, <<"^q", <<"y">>>>,
    <<"^yu", <<"y", "u">>>>, <<"^ya", <<"y", "a">>>>
  }

LatinOf == [c \in {p[1] : p \in transliteration_map} |->
               (CHOOSE p \in transliteration_map : p[1] = c)[2]]

RECURSIVE cyrillic_to_latin(_)
cyrillic_to_latin(text) ==
    IF text = << >> THEN << >>
    ELSE (IF Head(text) \in DOMAIN LatinOf THEN LatinOf[Head(text)]
          ELSE <<Head(text)>>)
         \o cyrillic_to_latin(Tail(text))

settlement_prefixes ==
    << SELO_, GRAD_, <<"^S", ".", " ">>, <<"^G", "^R", ".", " ">>,
       <<"^S", ".">>, <<"^G", "^R", ".">> >>

RECURSIVE StripPrefixes(_, _)
StripPrefixes(normalized, prefixes) ==
    IF prefixes = << >> THEN normalized
    ELSE StripPrefixes(
             IF StartsWith(normalized, Head(prefixes))
             THEN Strip(SubSeq(normalized, Len(Head(prefixes)) + 1,
                               Len(normalized)))
             ELSE normalized,
             Tail(prefixes))

\* normalize_settlement_name: None (the empty text) for a missing settlement
normalize_settlement_name(settlement) ==
    IF settlement = << >> THEN << >>
    ELSE StripPrefixes(Strip(Upper(settlement)), settlement_prefixes)

settlement_matches(expected_settlement, address_string) ==
    IF expected_settlement = << >> \/ address_string = << >> THEN FALSE
    ELSE LET address_upper == Upper(address_string)
             expected_upper == Upper(expected_settlement)
             expected_latin == cyrillic_to_latin(expected_upper)
             address_latin == cyrillic_to_latin(address_upper)
         IN  IF Contains(address_upper, expected_upper) THEN TRUE
             ELSE IF Contains(address_latin, expected_latin) THEN TRUE
             ELSE IF Contains(NoSpaces(address_latin),
                              NoSpaces(expected_latin)) THEN TRUE
             ELSE FALSE

\* the three-valued settlement match of compute_distances_and_status:
\* "None", "True" or "False"
SettlementMatch(expected_settlement, address_string) ==
    IF expected_settlement # << >> /\ address_string # << >>
    THEN (IF settlement_matches(expected_settlement, address_string)
          THEN "True" ELSE "False")
    ELSE NoneTag

---------------------------------------------------------------------------
(* scripts/03_compute_distances.py: compute_distances_and_status, the body  *)
(* of the loop for one record                                               *)

\* all([a, b, c, d]) over optional numbers
AllTruthy(a, b, c, d) == Truthy(a) /\ Truthy(b) /\ Truthy(c) /\ Truthy(d)

dist_src_nom(record) ==
    IF AllTruthy(record.lat_src, record.lon_src,
                 record.lat_nom, record.lon_nom)
    THEN haversine_distance(record.lat_src, record.lon_src,
                            record.lat_nom, record.lon_nom)
    ELSE None

dist_src_g(record) ==
    IF AllTruthy(record.lat_src, record.lon_src, record.lat_g, record.lon_g)
    THEN haversine_distance(record.lat_src, record.lon_src,
                            record.lat_g, record.lon_g)
    ELSE None

dist_nom_g(record) ==
    IF AllTruthy(record.lat_nom, record.lon_nom, record.lat_g, record.lon_g)
    THEN haversine_distance(record.lat_nom, record.lon_nom,
                            record.lat_g, record.lon_g)
    ELSE None

has_nom(record) == record.lon_nom # None /\ record.lat_nom # None

has_google(record) == record.lon_g # None /\ record.lat_g # None

has_src(record) == record.lon_src # None /\ record.lat_src # None

nom_settlement_match(record) ==
    SettlementMatch(normalize_settlement_name(record.settlement),
                    record.nom_display_name)

g_settlement_match(record) ==
    SettlementMatch(normalize_settlement_name(record.settlement),
                    record.g_formatted_address)

nom_available(record) ==
    has_nom(record) /\ nom_settlement_match(record) \in {NoneTag, "True"}

g_available(record) ==
    has_google(record) /\ g_settlement_match(record) \in {NoneTag, "True"}

nom_valid(record) ==
    /\ nom_available(record)
    /\ dist_src_nom(record) # None
    /\ Val(dist_src_nom(record)) <= ok_distance_m
    /\ record.nom_confidence >= min_confidence

\* a variant that does not look at the confidence
g_valid_AnyConfidence(record) ==
    /\ g_available(record)
    /\ dist_src_g(record) # None
    /\ Val(dist_src_g(record)) <= ok_distance_m

g_valid(record) ==
    /\ g_available(record)
    /\ dist_src_g(record) # None
    /\ Val(dist_src_g(record)) <= ok_distance_m
    /\ record.g_confidence >= min_confidence

\* the distance penalty of the comparison score
DistancePenalty(dist) ==
    IF dist # None
    THEN (IF Val(dist) > suspicious_distance_m THEN 30
          ELSE IF Val(dist) > ok_distance_m THEN 15 ELSE 0)
    ELSE 0

nom_score(record) ==
    IF nom_available(record)
    THEN record.nom_confidence - DistancePenalty(dist_src_nom(record))
    ELSE -999

g_score(record) ==
    IF g_available(record)
    THEN record.g_confidence - DistancePenalty(dist_src_g(record))
    ELSE -999

Choice(provider, lon, lat, status, notes) ==
    [best_provider |-> provider, best_lon |-> lon, best_lat |-> lat,
     status |-> status, notes |-> notes]

UseNominatim(record, status, notes) ==
    Choice("nominatim", record.lon_nom, record.lat_nom, status, notes)

\* a variant that pairs the secondary longitude with the primary latitude
UseGoogle_Mixed(record, status, notes) ==
    Choice("google", record.lon_g, record.lat_nom, status, notes)

UseGoogle(record, status, notes) ==
    Choice("google", record.lon_g, record.lat_g, status, notes)

MatchNote(match) ==
    IF match = "True" THEN <<"Settlement match: OK">> ELSE << >>

\* a variant that compares kilometres with the threshold in metres
FarStatus_Kilometres(dist) ==
    IF dist # None /\ Val(dist) \div 1000 > suspicious_distance_m
    THEN "mismatch"
    ELSE "needs_review"

\* status of a provider picked although it is not "clearly good"
FarStatus(dist) ==
    IF dist # None /\ Val(dist) > suspicious_distance_m THEN "mismatch"
    ELSE "needs_review"

\* a variant that falls back to the less confident provider
NoneAvailable_LowerConfidence(record) ==
    IF has_nom(record) /\ has_google(record)
    THEN (IF record.nom_confidence < record.g_confidence
          THEN UseNominatim(record, "needs_review",
                            <<"No settlement validation possible">>)
          ELSE UseGoogle(record, "needs_review",
                         <<"No settlement validation possible">>))
    ELSE IF has_nom(record)
    THEN UseNominatim(record, "needs_review",
                      <<"No settlement validation possible">>)
    ELSE UseGoogle(record, "needs_review",
                   <<"No settlement validation possible">>)

\* lines 399-420: no provider has the right settlement
NoneAvailable(record) ==
    IF has_nom(record) /\ has_google(record)
    THEN (IF record.nom_confidence >= record.g_confidence
          THEN UseNominatim(record, "needs_review",
                            <<"No settlement validation possible">>)
          ELSE UseGoogle(record, "needs_review",
                         <<"No settlement validation possible">>))
    ELSE IF has_nom(record)
    THEN UseNominatim(record, "needs_review",
                      <<"No settlement validation possible">>)
    ELSE UseGoogle(record, "needs_review",
                   <<"No settlement validation possible">>)

\* a variant that gives a tie of the scores to the secondary
BestAvailable_TieToGoogle(record) ==
    IF g_score(record) >= nom_score(record) /\ g_available(record)
    THEN UseGoogle(record, FarStatus(dist_src_g(record)),
                   <<"Google from source">>
                   \o MatchNote(g_settlement_match(record)))
    ELSE IF nom_available(record)
    THEN UseNominatim(record, FarStatus(dist_src_nom(record)),
                      <<"Nominatim from source">>
                      \o MatchNote(nom_settlement_match(record)))
    ELSE IF g_available(record)
    THEN UseGoogle(record, FarStatus(dist_src_g(record)),
                   <<"Google result">>
                   \o MatchNote(g_settlement_match(record)))
    ELSE NoneAvailable(record)

\* lines 327-398: neither provider is "clearly good"
BestAvailable(record) ==
    IF g_score(record) > nom_score(record) /\ g_available(record)
    THEN UseGoogle(record, FarStatus(dist_src_g(record)),
                   <<"Google from source">>
                   \o MatchNote(g_settlement_match(record)))
    ELSE IF nom_available(record)
    THEN UseNominatim(record, FarStatus(dist_src_nom(record)),
                      <<"Nominatim from source">>
                      \o MatchNote(nom_settlement_match(record)))
    ELSE IF g_available(record)
    THEN UseGoogle(record, FarStatus(dist_src_g(record)),
                   <<"Google result">>
                   \o MatchNote(g_settlement_match(record)))
    ELSE NoneAvailable(record)

\* a variant that asks the secondary before the primary
WithSource_GoogleFirst(record) ==
    IF g_valid(record)
    THEN UseGoogle(record, "ok",
                   <<"Google within ok distance of source">>
                   \o MatchNote(g_settlement_match(record)))
    ELSE IF nom_valid(record)
    THEN UseNominatim(record, "ok",
                      <<"Nominatim within ok distance of source">>
                      \o MatchNote(nom_settlement_match(record)))
    ELSE BestAvailable(record)

\* lines 297-325: source coordinates exist
WithSource(record) ==
    IF nom_valid(record)
    THEN UseNominatim(record, "ok",
                      <<"Nominatim within ok distance of source">>
                      \o MatchNote(nom_settlement_match(record)))
    ELSE IF g_valid(record)
    THEN UseGoogle(record, "ok",
                   <<"Google within ok distance of source">>
                   \o MatchNote(g_settlement_match(record)))
    ELSE BestAvailable(record)

\* a variant that prefers the primary when both meet the threshold
WithoutSource_PrimaryFirst(record) ==
    IF has_nom(record) /\ record.nom_confidence >= min_confidence
    THEN UseNominatim(record, "ok", <<"No source coords - using Nominatim">>)
    ELSE IF has_google(record) /\ record.g_confidence >= min_confidence
    THEN UseGoogle(record, "ok", <<"No source coords - using Google">>)
    ELSE IF has_google(record)
    THEN UseGoogle(record, "needs_review",
                   <<"No source coords - using Google (low confidence)">>)
    ELSE IF has_nom(record)
    THEN UseNominatim(record, "needs_review",
                      <<"No source coords - using Nominatim (low confidence)">>)
    ELSE Choice(NoneTag, None, None, "not_found",
                <<"No coordinates available">>)

\* lines 422-458: no source coordinates
WithoutSource(record) ==
    IF has_google(record) /\ record.g_confidence >= min_confidence
    THEN UseGoogle(record, "ok", <<"No source coords - using Google">>)
    ELSE IF has_nom(record) /\ record.nom_confidence >= min_confidence
    THEN UseNominatim(record, "ok", <<"No source coords - using Nominatim">>)
    ELSE IF has_google(record)
    THEN UseGoogle(record, "needs_review",
                   <<"No source coords - using Google (low confidence)">>)
    ELSE IF has_nom(record)
    THEN UseNominatim(record, "needs_review",
                      <<"No source coords - using Nominatim (low confidence)">>)
    ELSE Choice(NoneTag, None, None, "not_found",
                <<"No coordinates available">>)

\* a variant of DecideBest that keeps the source coordinate when no
\* provider produced one
DecideBest_SourceFallback(record) ==
    IF ~has_nom(record) /\ ~has_google(record)
    THEN IF has_src(record)
         THEN Choice("source", record.lon_src, record.lat_src, "not_found",
                     <<"No geocoding results from Nominatim or Google">>)
         ELSE Choice(NoneTag, None, None, "not_found",
                     <<"No geocoding results from Nominatim or Google">>)
    ELSE IF has_src(record) THEN WithSource(record)
    ELSE WithoutSource(record)

\* lines 277-458: best coordinates and status
DecideBest(record) ==
    IF ~has_nom(record) /\ ~has_google(record)
    THEN Choice(NoneTag, None, None, "not_found",
                <<"No geocoding results from Nominatim or Google">>)
    ELSE IF has_src(record) THEN WithSource(record)
    ELSE WithoutSource(record)

\* lines 469-502: the row after the UPDATE of the record
Reconciled(record) ==
    LET best == DecideBest(record)
    IN  [record EXCEPT !.dist_src_nom_m = dist_src_nom(record),
                       !.dist_src_g_m = dist_src_g(record),
                       !.dist_nom_g_m = dist_nom_g(record),
                       !.best_provider = best.best_provider,
                       !.best_lon = best.best_lon,
                       !.best_lat = best.best_lat,
                       !.status = best.status,
                       !.notes = best.notes,
                       !.reconciled = TRUE]

---------------------------------------------------------------------------
(* scripts/02_geocode_hybrid.py: pure functions                             *)
(*                                                                          *)
(* A Nominatim place object is a record                                     *)
(*   [lat, lon, class, type, importance (in hundredths), osm_type,          *)
(*    display_name, address]                                                *)
(* whose address is None or a record of the address keys the code reads:    *)
(* presence flags for house_number, building, street, road, neighbourhood,  *)
(* suburb, quarter and texts for village, town, city, locality.  Class and  *)
(* type tags are lower-case TLA+ strings.                                   *)

\* a or b over texts
OrText(a, b) == IF a # << >> THEN a ELSE b

\* extract_nominatim_address_parts(raw_result)[0]: the settlement
nom_settlement_of(raw_result) ==
    IF raw_result = None \/ Val(raw_result).address = None THEN << >>
    ELSE LET address == Val(Val(raw_result).address)
         IN  Strip(OrText(address.village,
                   OrText(address.town,
                   OrText(address.city, address.locality))))

OBSHTINA_ == <<"^O", "^B", "^SHT", "^I", "^N", "^A", " ">>

skip_tokens ==
    { <<"^S", "^E", "^L", "^O">>, <<"^G", "^R", "^A", "^D">>,
      <<"^S", ".">>, <<"^G", "^R", ".">> }

RECURSIVE SkipLeading(_)
SkipLeading(words) ==
    IF words # << >> /\ Strip(Upper(Head(words))) \in skip_tokens
    THEN SkipLeading(Tail(words))
    ELSE words

MaxTokenLen == 80

\* normalize_municipality_for_nominatim: None is the empty text
normalize_municipality_for_nominatim(municipality) ==
    LET s0 == Strip(municipality)
        s  == IF StartsWith(Upper(s0), OBSHTINA_)
              THEN Strip(SubSeq(s0, Len(OBSHTINA_) + 1, Len(s0)))
              ELSE s0
        words == SkipLeading(Split(s))
    IN  IF s0 = << >> \/ s = << >> \/ words = << >> THEN << >>
        ELSE IF Len(Head(words)) > MaxTokenLen THEN << >>
        ELSE Strip(Head(words))

\* json.dumps of a result dict: the text of an object, one member per key
json_dumps(response_data) ==
    { <<k, response_data[k]>> : k \in DOMAIN response_data }

\* json.loads of such a text: the dict of its members
json_loads(response_json) ==
    [k \in { member[1] : member \in response_json } |->
        (CHOOSE member \in response_json : member[1] = k)[2]]

\* a variant that appends a row and leaves the rows of the key in place
cache_set_Insert(cache, address_query, response_data) ==
    cache \cup {[address_query |-> address_query,
                 response_json |-> json_dumps(response_data)]}

\* GeocoderCache.set: INSERT OR REPLACE on the primary key address_query
cache_set(cache, address_query, response_data) ==
    { row \in cache : row.address_query # address_query }
    \cup {[address_query |-> address_query,
           response_json |-> json_dumps(response_data)]}

\* a variant that passes over a cached failure
cache_get_RetryFailures(cache, address_query) ==
    LET rows == { row \in cache : row.address_query = address_query
                                   /\ json_loads(row.response_json).success }
    IN  IF rows # {}
        THEN Some(json_loads((CHOOSE row \in rows : TRUE).response_json))
        ELSE None

\* GeocoderCache.get: fetchone() of the rows of the key; None or the decoded
\* response_json
cache_get(cache, address_query) ==
    LET rows == { row \in cache : row.address_query = address_query }
    IN  IF rows # {}
        THEN Some(json_loads((CHOOSE row \in rows : TRUE).response_json))
        ELSE None

\* GeocoderCache._init_db on a new file: the table cache without rows
EmptyCache == {}

\* config['nominatim']['big_cities']
big_cities ==
    { <<"^G", "^R", "^A", "^D", " ", "^B", "^U", "^R", "^G", "^A", "^S">> }

\* config['nominatim']['big_city_strategy'], at its defaults
use_freeform_first == TRUE

fallback_to_structured == TRUE

reject_administrative_only == TRUE

prefer_building_results == TRUE

validate_settlement_match == TRUE

_is_big_city(settlement) ==
    IF settlement = << >> THEN FALSE ELSE Strip(settlement) \in big_cities

preferred_classes ==
    {"building", "highway", "amenity", "shop", "office", "tourism"}

preferred_types == {"building", "residential", "house", "commercial", "yes"}

SpecificConfidence == 70

\* a variant in which a confidence of 70 or more overrides the rejection of
\* administrative boundaries
_validate_big_city_result_Override(candidate, expected_settlement) ==
    IF candidate = None \/ ~Val(candidate).success THEN FALSE
    ELSE LET r == Val(candidate)
             is_specific == r.class \in preferred_classes
                            \/ r.type \in preferred_types
             nom_settlement == nom_settlement_of(r.raw_json)
             expected_clean ==
                 Upper(Strip(Remove(Remove(expected_settlement, GRAD_),
                                    SELO_)))
             nom_clean == Strip(Upper(nom_settlement))
         IN  IF reject_administrative_only
                /\ (r.type = "administrative" \/ r.class = "boundary")
                /\ r.confidence < SpecificConfidence
             THEN FALSE
             ELSE IF prefer_building_results
                     /\ ~is_specific /\ r.confidence < SpecificConfidence
             THEN FALSE
             ELSE IF validate_settlement_match
                     /\ nom_settlement # << >>
                     /\ ~Contains(nom_clean, expected_clean)
                     /\ ~Contains(expected_clean, nom_clean)
             THEN FALSE
             ELSE TRUE

\* _validate_big_city_result(result_data, expected_settlement), the
\* result an optional result
_validate_big_city_result(candidate, expected_settlement) ==
    IF candidate = None \/ ~Val(candidate).success THEN FALSE
    ELSE LET r == Val(candidate)
             is_specific == r.class \in preferred_classes
                            \/ r.type \in preferred_types
             nom_settlement == nom_settlement_of(r.raw_json)
             expected_clean ==
                 Upper(Strip(Remove(Remove(expected_settlement, GRAD_),
                                    SELO_)))
             nom_clean == Strip(Upper(nom_settlement))
         IN  IF reject_administrative_only
                /\ (r.type = "administrative" \/ r.class = "boundary")
             THEN FALSE
             ELSE IF prefer_building_results
                     /\ ~is_specific /\ r.confidence < SpecificConfidence
             THEN FALSE
             ELSE IF validate_settlement_match
                     /\ nom_settlement # << >>
                     /\ ~Contains(nom_clean, expected_clean)
                     /\ ~Contains(expected_clean, nom_clean)
             THEN FALSE
             ELSE TRUE

\* display_name.count(',')
RECURSIVE CountCommas(_)
CountCommas(s) ==
    IF s = << >> THEN 0
    ELSE (IF Head(s) = "," THEN 1 ELSE 0) + CountCommas(Tail(s))

\* a variant without the upper limit
Clamp_NoCeiling(score) == IF score < 0 THEN 0 ELSE score

\* max(0, min(100, score))
Clamp(score) == IF score < 0 THEN 0 ELSE IF score > 100 THEN 100 ELSE score

TypeScore(osm_class, osm_type) ==
    IF osm_class = "building" \/ osm_type = "building" THEN 20
    ELSE IF osm_type \in {"house", "yes", "residential", "commercial",
                          "apartments"} THEN 15
    ELSE IF osm_class = "highway" THEN 15
    ELSE IF osm_type \in {"residential", "pedestrian", "service",
                          "unclassified"} THEN 10
    ELSE IF osm_class \in {"amenity", "tourism", "leisure", "shop", "office"}
         THEN 12
    ELSE IF osm_class = "place"
         THEN (IF osm_type \in {"village", "town", "city"} THEN 5
               ELSE IF osm_type \in {"neighbourhood", "suburb", "quarter"}
                    THEN 8
               ELSE 0)
    ELSE IF osm_class = "boundary" \/ osm_type = "administrative" THEN -15
    ELSE 0

AddressScore(address) ==
    IF address = None THEN 0
    ELSE LET a == Val(address)
         IN  (IF a.house_number \/ a.building THEN 15 ELSE 0)
             + (IF a.street \/ a.road THEN 8 ELSE 0)
             + (IF a.neighbourhood \/ a.suburb \/ a.quarter THEN 5 ELSE 0)

\* int(importance * 15), importance given in hundredths
ImportanceScore(importance) == (importance * 15) \div 100

GeometryScore(result_osm_type) ==
    IF result_osm_type = "node" THEN 8
    ELSE IF result_osm_type = "way" THEN 5
    ELSE IF result_osm_type = "relation" THEN -5
    ELSE 0

CommaScore(comma_count) ==
    IF comma_count >= 5 THEN 8
    ELSE IF comma_count >= 4 THEN 5
    ELSE IF comma_count >= 3 THEN 3
    ELSE 0

BaseScore == 40

\* NominatimGeocoder._calculate_confidence(result, address_query)
nominatim_confidence(result) ==
    Clamp(BaseScore
          + TypeScore(result.class, result.type)
          + AddressScore(result.address)
          + ImportanceScore(result.importance)
          + GeometryScore(result.osm_type)
          + CommaScore(CountCommas(result.display_name)))

FallbackPenalty == 20

PenaltyFloor == 30

Max(a, b) == IF a >= b THEN a ELSE b

\* a successful Nominatim result dict
NomSuccess(result, confidence, query_used) ==
    [success |-> TRUE,
     lat |-> Some(result.lat),
     lon |-> Some(result.lon),
     display_name |-> result.display_name,
     class |-> result.class,
     type |-> result.type,
     confidence |-> confidence,
     raw_json |-> Some(result),
     query_used |-> query_used,
     queries_tried |-> << >>]

\* the failure result of NominatimGeocoder.geocode (lines 361-369)
NomFailure(queries_to_try) ==
    [success |-> FALSE,
     lat |-> None,
     lon |-> None,
     display_name |-> << >>,
     class |-> NoneTag,
     type |-> NoneTag,
     confidence |-> 0,
     raw_json |-> None,
     query_used |-> << >>,
     queries_tried |-> queries_to_try]

Bulgaria_en == <<"B", "u", "l", "g", "a", "r", "i", "a">>

StructuredTag == <<"s", "t", "r", "u", "c", "t", "u", "r", "e", "d", ":">>

\* f"structured:{city},{county},{country}"
StructuredQuery(city, county, country) ==
    StructuredTag \o city \o <<",">> \o county \o <<",">> \o country

\* _nominatim_request_structured after the request: None for an exception
\* or an empty list, else the scored first result
structured_result(resp, city, county, country, address_query) ==
    IF resp.kind # "ok" THEN None
    ELSE Some(NomSuccess(resp.place, nominatim_confidence(resp.place),
                         StructuredQuery(city, county, country)))

\* a variant whose floor is the minimum confidence
freeform_result_HighFloor(resp, query_attempt, address_query) ==
    IF resp.kind # "ok" THEN None
    ELSE LET confidence == nominatim_confidence(resp.place)
         IN  Some(NomSuccess(resp.place,
                     IF query_attempt # address_query
                     THEN Max(confidence - FallbackPenalty, min_confidence)
                     ELSE confidence,
                     query_attempt))

\* _nominatim_request_freeform after the request
freeform_result(resp, query_attempt, address_query) ==
    IF resp.kind # "ok" THEN None
    ELSE LET confidence == nominatim_confidence(resp.place)
         IN  Some(NomSuccess(resp.place,
                     IF query_attempt # address_query
                     THEN Max(confidence - FallbackPenalty, PenaltyFloor)
                     ELSE confidence,
                     query_attempt))

MunicipalityTag ==
    <<"|", "m", "u", "n", "i", "c", "i", "p", "a", "l", "i", "t", "y", ":">>

\* NominatimGeocoder.geocode, lines 275-282
nom_cache_key(address_query, municipality) ==
    IF municipality # << >>
    THEN address_query \o MunicipalityTag
         \o OrText(normalize_municipality_for_nominatim(municipality),
                   Strip(municipality))
    ELSE address_query

\* NominatimGeocoder.geocode, lines 287-289
settlement_clean_of(settlement) ==
    IF settlement # << >>
    THEN Strip(Remove(Remove(settlement, SELO_), GRAD_))
    ELSE << >>

\* a variant that tries the shortest fallback query first
queries_to_try_Reversed(address_query, settlement, municipality) ==
    LET settlement_clean == settlement_clean_of(settlement)
        municipality_clean == Strip(municipality)
    IN  (IF settlement_clean # << >>
         THEN <<settlement_clean \o CommaSpace \o Bulgaria_bg>>
         ELSE << >>)
        \o (IF settlement_clean # << >> /\ municipality_clean # << >>
            THEN <<settlement_clean \o CommaSpace \o municipality_clean
                   \o CommaSpace \o Bulgaria_bg>>
            ELSE << >>)
        \o <<address_query>>

\* NominatimGeocoder.geocode, lines 291-296
queries_to_try(address_query, settlement, municipality) ==
    LET settlement_clean == settlement_clean_of(settlement)
        municipality_clean == Strip(municipality)
    IN  <<address_query>>
        \o (IF settlement_clean # << >> /\ municipality_clean # << >>
            THEN <<settlement_clean \o CommaSpace \o municipality_clean
                   \o CommaSpace \o Bulgaria_bg>>
            ELSE << >>)
        \o (IF settlement_clean # << >>
            THEN <<settlement_clean \o CommaSpace \o Bulgaria_bg>>
            ELSE << >>)

\* GoogleGeocoder._calculate_confidence
google_confidence(location_type) ==
    IF location_type = "ROOFTOP" THEN 95
    ELSE IF location_type = "RANGE_INTERPOLATED" THEN 80
    ELSE IF location_type = "GEOMETRIC_CENTER" THEN 60
    ELSE IF location_type = "APPROXIMATE" THEN 40
    ELSE 40

GoogleFailure ==
    [success |-> FALSE, lat |-> None, lon |-> None,
     formatted_address |-> << >>, location_type |-> NoneTag,
     confidence |-> 0]

\* a variant that takes every response that arrived and parsed as a success
google_data_Unchecked(resp) ==
    IF resp.kind = "ok"
    THEN [success |-> TRUE,
          lat |-> Some(resp.result.lat),
          lon |-> Some(resp.result.lng),
          formatted_address |-> resp.result.formatted_address,
          location_type |-> resp.result.location_type,
          confidence |-> google_confidence(resp.result.location_type)]
    ELSE IF resp.kind = "zero"
    THEN [GoogleFailure EXCEPT !.success = TRUE,
                               !.confidence = google_confidence(NoneTag)]
    ELSE GoogleFailure

\* GoogleGeocoder.geocode after the request (lines 584-640): the data that
\* is cached and returned; every exception of the try block ends in the
\* failure data
google_data(resp) ==
    IF resp.kind = "ok"
    THEN [success |-> TRUE,
          lat |-> Some(resp.result.lat),
          lon |-> Some(resp.result.lng),
          formatted_address |-> resp.result.formatted_address,
          location_type |-> resp.result.location_type,
          confidence |-> google_confidence(resp.result.location_type)]
    ELSE GoogleFailure

\* a variant that also escalates at a confidence equal to the threshold
need_google_Inclusive(result) ==
    IF ~result.success THEN TRUE
    ELSE IF result.confidence <= min_confidence THEN TRUE
    ELSE FALSE

\* a variant that escalates every record
need_google_Always(result) == TRUE

\* geocode_records, lines 822-828
need_google(result) ==
    IF ~result.success THEN TRUE
    ELSE IF result.confidence < min_confidence THEN TRUE
    ELSE FALSE

---------------------------------------------------------------------------
(* Bounds and the inputs the model draws from *)

\* rows in community_centers
NumRecords == 2

\* the elapsed time is followed up to this many ticks
MaxElapsed == 3

BURGAS == <<"^B", "^U", "^R", "^G", "^A", "^S">>

GRAD_BURGAS ==
    <<"^G", "^R", "^A", "^D", " ", "^B", "^U", "^R", "^G", "^A", "^S">>

SELO_IZVOR == <<"^S", "^E", "^L", "^O", " ", "^I", "^Z", "^V", "^O", "^R">>

\* address_query of a row with street, settlement BURGAS, municipality BURGAS
QueryVazovBurgas ==
    <<"^u", "^l", ".", " ", "^V", "^a", "^z", "^o", "^v", " ", "1", ",", " ",
      "^B", "^U", "^R", "^G", "^A", "^S", ",", " ",
      "^B", "^w", "^l", "^g", "^a", "^r", "^i", "^ya">>

\* address_query of a row without street, settlement IZVOR, municipality BURGAS
QueryIzvorBurgas ==
    <<"^I", "^Z", "^V", "^O", "^R", ",", " ",
      "^B", "^U", "^R", "^G", "^A", "^S", ",", " ",
      "^B", "^w", "^l", "^g", "^a", "^r", "^i", "^ya">>

\* address_query of a row without street and municipality, settlement IZVOR
QueryIzvor ==
    <<"^I", "^Z", "^V", "^O", "^R", ",", " ",
      "^B", "^w", "^l", "^g", "^a", "^r", "^i", "^ya">>

DisplayVazovBurgas ==
    <<"1", ",", " ", "^u", "^l", ".", " ", "^V", "^a", "^z", "^o", "^v",
      ",", " ", "^B", "^u", "^r", "^g", "^a", "^s", ",", " ",
      "^B", "^w", "^l", "^g", "^a", "^r", "^i", "^ya">>

DisplayBurgas ==
    <<"^B", "^u", "^r", "^g", "^a", "^s", ",", " ",
      "^B", "^w", "^l", "^g", "^a", "^r", "^i", "^ya">>

DisplayIzvor ==
    <<"^I", "^z", "^v", "^o", "^r", ",", " ",
      "^B", "^u", "^r", "^g", "^a", "^s", ",", " ",
      "^B", "^w", "^l", "^g", "^a", "^r", "^i", "^ya">>

DisplaySofia ==
    <<"^S", "^o", "^f", "^i", "^ya", ",", " ",
      "^B", "^w", "^l", "^g", "^a", "^r", "^i", "^ya">>

DisplayBurgasLatin ==
    <<"B", "u", "r", "g", "a", "s", ",", " ",
      "B", "u", "l", "g", "a", "r", "i", "a">>

EmptyAddress ==
    [house_number |-> FALSE, building |-> FALSE, street |-> FALSE,
     road |-> FALSE, neighbourhood |-> FALSE, suburb |-> FALSE,
     quarter |-> FALSE, village |-> << >>, town |-> << >>, city |-> << >>,
     locality |-> << >>]

\* a building with house number and road in Burgas: confidence 95
PlaceBuilding ==
    [lat |-> 1, lon |-> 1, class |-> "building", type |-> "yes",
     importance |-> 30, osm_type |-> "way",
     display_name |-> DisplayVazovBurgas,
     address |-> Some([EmptyAddress EXCEPT
                          !.house_number = TRUE, !.road = TRUE,
                          !.city = <<"^B", "^u", "^r", "^g", "^a", "^s">>])]

\* the administrative boundary of Burgas: confidence 29
PlaceBoundary ==
    [lat |-> 2, lon |-> 3, class |-> "boundary", type |-> "administrative",
     importance |-> 60, osm_type |-> "relation",
     display_name |-> DisplayBurgas,
     address |-> Some([EmptyAddress EXCEPT
                          !.city = <<"^B", "^u", "^r", "^g", "^a", "^s">>])]

\* the village node of Izvor: confidence 60
PlaceVillage ==
    [lat |-> 1, lon |-> 10, class |-> "place", type |-> "village",
     importance |-> 50, osm_type |-> "node",
     display_name |-> DisplayIzvor,
     address |-> Some([EmptyAddress EXCEPT
                          !.village = <<"^I", "^z", "^v", "^o", "^r">>])]

Places == {PlaceBuilding, PlaceBoundary, PlaceVillage}

\* what one Nominatim request can yield: an exception or timeout, an empty
\* list, or a list whose first element is a place
NomResponses ==
    {[kind |-> "error"], [kind |-> "empty"]}
    \cup {[kind |-> "ok", place |-> p] : p \in Places}

GoogleResults ==
    { [lat |-> 1, lng |-> 1, location_type |-> "ROOFTOP",
       formatted_address |-> DisplayVazovBurgas],
      [lat |-> 1, lng |-> 10, location_type |-> "APPROXIMATE",
       formatted_address |-> DisplaySofia] }

\* what the Google request can yield: an exception of the transport, a body
\* that does not parse or lacks the geometry, a status that is not OK (or no
\* results), or results
GoogleResponses ==
    {[kind |-> "error"], [kind |-> "malformed"], [kind |-> "zero"]}
    \cup {[kind |-> "ok", result |-> r] : r \in GoogleResults}

\* a row as scripts/01_import_excel_to_pg.py inserts it
ImportedRow(address_query, settlement, municipality, lon_src, lat_src) ==
    [address_query |-> address_query,
     settlement |-> settlement,
     municipality |-> municipality,
     lon_src |-> lon_src, lat_src |-> lat_src,
     nom_queried |-> FALSE,
     lon_nom |-> None, lat_nom |-> None,
     nom_confidence |-> 0,
     nom_display_name |-> << >>,
     nom_query_used |-> << >>,
     g_queried |-> FALSE,
     lon_g |-> None, lat_g |-> None,
     g_confidence |-> 0,
     g_formatted_address |-> << >>,
     dist_src_nom_m |-> None, dist_src_g_m |-> None, dist_nom_g_m |-> None,
     best_provider |-> NoneTag, best_lon |-> None, best_lat |-> None,
     status |-> NoneTag, notes |-> << >>,
     reconciled |-> FALSE]

\* the rows the table holds after the import: a large city and a village,
\* each with and without municipality, with and without source coordinates
ImportedRows ==
    { ImportedRow(QueryVazovBurgas, GRAD_BURGAS, BURGAS, Some(1), Some(1)),
      ImportedRow(QueryVazovBurgas, GRAD_BURGAS, << >>, None, None),
      ImportedRow(QueryIzvorBurgas, SELO_IZVOR, BURGAS, None, None),
      ImportedRow(QueryIzvor, SELO_IZVOR, << >>, Some(1), Some(1)) }

---------------------------------------------------------------------------
(* scripts/02_geocode_hybrid.py: geocode_records and the two geocoders *)

\* config['nominatim']['rate_limit_seconds'], in ticks of half a second
rate_limit_seconds == 2

\* no function is applied on its own
NoCall == [op |-> "none"]

\* a variant that stamps without sleeping
_rate_limit_NoSleep ==
    /\ stamp_gap' = Some(elapsed)
    /\ elapsed' = 0

\* NominatimGeocoder._rate_limit: sleep for the rest of the interval, then
\* stamp; a geocoder just constructed has last_request_time = 0, so that its
\* elapsed time is beyond every interval
_rate_limit ==
    LET rate_limit == rate_limit_seconds
        sleep == IF elapsed < rate_limit THEN rate_limit - elapsed ELSE 0
    IN  /\ stamp_gap' = Some(elapsed + sleep)
        /\ elapsed' = 0

ZeroStats ==
    [total |-> 0, nominatim_success |-> 0, nominatim_failed |-> 0,
     google_called |-> 0, google_success |-> 0, google_failed |-> 0]

\* ids of the rows WHERE nom_queried_at IS NULL, ORDER BY id
RECURSIVE SelectFrom(_, _)
SelectFrom(table, i) ==
    IF i > Len(table) THEN << >>
    ELSE (IF ~table[i].nom_queried THEN <<i>> ELSE << >>)
         \o SelectFrom(table, i + 1)

\* the row the geocoding loop is at
Current == db[records[idx]]

\* lines 697-750: select the rows to geocode; return when there are none
SelectRecords ==
    /\ phase = "geocode" /\ pc = "select"
    /\ LET selected == SelectFrom(db, 1)
       IN  /\ records' = selected
           /\ IF selected = << >>
              THEN phase' = "recon" /\ pc' = "idle" /\ stats' = stats
              ELSE /\ phase' = phase /\ pc' = "begin"
                   /\ stats' = [ZeroStats EXCEPT !.total = Len(selected)]
    /\ idx' = 1
    /\ UNCHANGED <<db, nom_cache, g_cache, nom_result, google_result,
                   result_data, fb_idx, requests, g_requests>>
    /\ UNCHANGED <<elapsed, stamp_gap, call>>

\* the loop moves to the next selected row, or the script ends
Advance ==
    IF idx < Len(records)
    THEN idx' = idx + 1 /\ pc' = "begin" /\ phase' = phase
    ELSE idx' = 1 /\ pc' = "idle" /\ phase' = "recon"

\* NominatimGeocoder.geocode returns result: it is cached first
ReturnCached(result) ==
    /\ nom_cache' = cache_set(nom_cache,
                       nom_cache_key(Current.address_query,
                                     Current.municipality),
                       result)
    /\ nom_result' = Some(result)
    /\ result_data' = None
    /\ fb_idx' = 0
    /\ pc' = "store_nom"

\* the common fallbacks are entered
EnterFallbacks ==
    /\ result_data' = None
    /\ fb_idx' = 1
    /\ pc' = "fallback"
    /\ UNCHANGED <<nom_cache, nom_result>>

\* an outbound request and what it yielded (None or a result)
Sent(kind, query, result) ==
    [kind |-> kind, query |-> query, result |-> result]

\* lines 752-763 and geocode lines 275-302: skip a row without query, else
\* enter NominatimGeocoder.geocode: return the cached result or choose the
\* first strategy
BeginRecord ==
    /\ phase = "geocode" /\ pc = "begin"
    /\ requests' = << >>
    /\ g_requests' = << >>
    /\ IF Current.address_query = << >>
       THEN /\ Advance
            /\ UNCHANGED <<nom_cache, nom_result, result_data, fb_idx>>
       ELSE LET cached == cache_get(nom_cache,
                              nom_cache_key(Current.address_query,
                                            Current.municipality))
            IN  /\ phase' = phase /\ idx' = idx
                /\ IF cached # None
                   THEN /\ nom_result' = cached
                        /\ pc' = "store_nom"
                        /\ UNCHANGED <<nom_cache, result_data, fb_idx>>
                   ELSE /\ UNCHANGED <<nom_cache, nom_result, result_data>>
                        /\ IF _is_big_city(Current.settlement)
                              /\ use_freeform_first
                           THEN pc' = "big_city_freeform" /\ fb_idx' = 0
                           ELSE IF settlement_clean_of(Current.settlement)
                                       # << >>
                                   /\ normalize_municipality_for_nominatim(
                                          Current.municipality) # << >>
                           THEN pc' = "structured" /\ fb_idx' = 0
                           ELSE pc' = "fallback" /\ fb_idx' = 1
    /\ UNCHANGED <<db, g_cache, records, google_result, stats>>
    /\ UNCHANGED <<elapsed, stamp_gap, call>>

\* a variant that keeps any free-form candidate
AcceptFreeform_Any(result, settlement) == result # None

\* geocode line 315: the big-city path keeps the free-form result
AcceptFreeform(result, settlement) ==
    result # None /\ _validate_big_city_result(result, settlement)

\* geocode lines 307-331, first half: the free-form request of the big-city
\* path and the validation of its result
BigCityFreeform ==
    /\ phase = "geocode" /\ pc = "big_city_freeform"
    /\ \E resp \in NomResponses :
          LET result == freeform_result(resp, Current.address_query,
                                        Current.address_query)
          IN  /\ requests' = Append(requests,
                                 Sent("freeform", Current.address_query,
                                      result))
              /\ IF AcceptFreeform(result, Current.settlement)
                 THEN ReturnCached(Val(result))
                 ELSE IF fallback_to_structured
                         /\ settlement_clean_of(Current.settlement) # << >>
                         /\ normalize_municipality_for_nominatim(
                                Current.municipality) # << >>
                 THEN /\ result_data' = result
                      /\ pc' = "big_city_structured"
                      /\ UNCHANGED <<nom_cache, nom_result, fb_idx>>
                 ELSE IF result = None
                 THEN EnterFallbacks
                 ELSE ReturnCached(Val(result))
    /\ UNCHANGED <<db, phase, idx, g_cache, records, google_result,
                   g_requests, stats>>
    /\ _rate_limit /\ UNCHANGED call

\* the structured request of either path and what follows it
StructuredStep ==
    \E resp \in NomResponses :
        LET city == settlement_clean_of(Current.settlement)
            county == normalize_municipality_for_nominatim(
                          Current.municipality)
            result == structured_result(resp, city, county, Bulgaria_en,
                                        Current.address_query)
        IN  /\ requests' = Append(requests,
                               Sent("structured",
                                    StructuredQuery(city, county, Bulgaria_en),
                                    result))
            /\ IF result # None THEN ReturnCached(Val(result))
               ELSE EnterFallbacks

\* geocode lines 321-331: the structured fallback of the big-city path
BigCityStructured ==
    /\ phase = "geocode" /\ pc = "big_city_structured"
    /\ StructuredStep
    /\ UNCHANGED <<db, phase, idx, g_cache, records, google_result,
                   g_requests, stats>>
    /\ _rate_limit /\ UNCHANGED call

\* geocode lines 336-347: the structured request of the small-settlement path
SmallStructured ==
    /\ phase = "geocode" /\ pc = "structured"
    /\ StructuredStep
    /\ UNCHANGED <<db, phase, idx, g_cache, records, google_result,
                   g_requests, stats>>
    /\ _rate_limit /\ UNCHANGED call

\* geocode lines 352-372: one round of the loop over queries_to_try; after
\* the last round without result the failure result is cached and returned
Fallback ==
    /\ phase = "geocode" /\ pc = "fallback"
    /\ \E resp \in NomResponses :
          LET queries == queries_to_try(Current.address_query,
                                        Current.settlement,
                                        Current.municipality)
              result == freeform_result(resp, queries[fb_idx],
                                        Current.address_query)
          IN  /\ requests' = Append(requests,
                                 Sent("freeform", queries[fb_idx], result))
              /\ IF result # None THEN ReturnCached(Val(result))
                 ELSE IF fb_idx = Len(queries)
                 THEN ReturnCached(NomFailure(queries))
                 ELSE /\ fb_idx' = fb_idx + 1
                      /\ UNCHANGED <<nom_cache, nom_result, result_data, pc>>
    /\ UNCHANGED <<db, phase, idx, g_cache, records, google_result,
                   g_requests, stats>>
    /\ _rate_limit /\ UNCHANGED call

\* the row after the UPDATE of lines 770-815
WithNominatim(record, result) ==
    [record EXCEPT !.lon_nom = result.lon,
                   !.lat_nom = result.lat,
                   !.nom_display_name = result.display_name,
                   !.nom_confidence = result.confidence,
                   !.nom_query_used = result.query_used,
                   !.nom_queried = TRUE]

\* lines 765-831: store the Nominatim result, count it, decide on Google
StoreNominatim ==
    /\ phase = "geocode" /\ pc = "store_nom"
    /\ db' = [db EXCEPT ![records[idx]] = WithNominatim(@, Val(nom_result))]
    /\ stats' = IF Val(nom_result).success
                THEN [stats EXCEPT !.nominatim_success = @ + 1]
                ELSE [stats EXCEPT !.nominatim_failed = @ + 1]
    /\ IF need_google(Val(nom_result))
       THEN pc' = "google" /\ idx' = idx /\ phase' = phase
       ELSE Advance
    /\ nom_result' = None
    /\ requests' = << >>
    /\ UNCHANGED <<nom_cache, g_cache, records, google_result, result_data,
                   fb_idx, g_requests>>
    /\ UNCHANGED <<elapsed, stamp_gap, call>>

\* lines 831-833 and GoogleGeocoder.geocode: the cached result, or one
\* request whose outcome is cached
GoogleGeocode ==
    /\ phase = "geocode" /\ pc = "google"
    /\ stats' = [stats EXCEPT !.google_called = @ + 1]
    /\ LET cached == cache_get(g_cache, Current.address_query)
       IN  IF cached # None
           THEN /\ google_result' = cached
                /\ UNCHANGED <<g_cache, g_requests>>
           ELSE \E resp \in GoogleResponses :
                   /\ g_cache' = cache_set(g_cache, Current.address_query,
                                           google_data(resp))
                   /\ google_result' = Some(google_data(resp))
                   /\ g_requests' = Append(g_requests, resp)
    /\ pc' = "store_google"
    /\ UNCHANGED <<db, phase, idx, nom_cache, records, nom_result,
                   result_data, fb_idx, requests>>
    /\ UNCHANGED <<elapsed, stamp_gap, call>>

\* the row after the UPDATE of lines 836-869
WithGoogle(record, result) ==
    [record EXCEPT !.lon_g = result.lon,
                   !.lat_g = result.lat,
                   !.g_formatted_address = result.formatted_address,
                   !.g_confidence = result.confidence,
                   !.g_queried = TRUE]

\* lines 835-874: store the Google result and count it
StoreGoogle ==
    /\ phase = "geocode" /\ pc = "store_google"
    /\ db' = [db EXCEPT ![records[idx]] = WithGoogle(@, Val(google_result))]
    /\ stats' = IF Val(google_result).success
                THEN [stats EXCEPT !.google_success = @ + 1]
                ELSE [stats EXCEPT !.google_failed = @ + 1]
    /\ Advance
    /\ google_result' = None
    /\ UNCHANGED <<nom_cache, g_cache, records, nom_result, result_data,
                   fb_idx, requests, g_requests>>
    /\ UNCHANGED <<elapsed, stamp_gap, call>>

\* time passes between two steps of the script: half a second
Tick ==
    /\ phase = "geocode"
    /\ elapsed < MaxElapsed
    /\ elapsed' = elapsed + 1
    /\ UNCHANGED <<db, phase, idx, pc, nom_cache, g_cache, records,
                   nom_result, google_result, result_data, fb_idx, requests,
                   g_requests, stats, stamp_gap, call>>

\* the script is killed while geocoding and run again: the table (committed
\* at lines 815 and 869) and the two cache files (committed at line 149)
\* are on disk and stay; the selection, the results in hand, the statistics
\* and the geocoder objects (last_request_time = 0, line 163) start anew
Crash ==
    /\ phase = "geocode" /\ pc # "select"
    /\ pc' = "select"
    /\ idx' = 1
    /\ records' = << >>
    /\ nom_result' = None /\ google_result' = None /\ result_data' = None
    /\ fb_idx' = 0 /\ requests' = << >> /\ g_requests' = << >>
    /\ stats' = ZeroStats
    /\ elapsed' = MaxElapsed /\ stamp_gap' = None
    /\ UNCHANGED <<db, phase, nom_cache, g_cache, call>>

---------------------------------------------------------------------------
(* scripts/03_compute_distances.py: the loop over all rows, ordered by id *)

Reconcile ==
    /\ phase = "recon"
    /\ idx <= Len(db)
    /\ db' = [db EXCEPT ![idx] = Reconciled(@)]
    /\ IF idx < Len(db)
       THEN idx' = idx + 1 /\ phase' = phase
       ELSE idx' = idx /\ phase' = "done"
    /\ UNCHANGED <<pc, nom_cache, g_cache, records, nom_result,
                   google_result, result_data, fb_idx, requests, g_requests,
                   stats>>
    /\ UNCHANGED <<elapsed, stamp_gap, call>>

---------------------------------------------------------------------------
(* Specifications *)

Idle ==
    /\ pc = "idle"
    /\ nom_cache = EmptyCache /\ g_cache = EmptyCache
    /\ records = << >>
    /\ nom_result = None /\ google_result = None /\ result_data = None
    /\ fb_idx = 0 /\ requests = << >> /\ g_requests = << >>
    /\ stats = ZeroStats
    /\ elapsed = MaxElapsed /\ stamp_gap = None

\* the pipeline: the geocoding script, then the reconciliation script, on a
\* freshly imported table with empty caches
Init ==
    /\ db \in [1..NumRecords -> ImportedRows]
    /\ phase = "geocode"
    /\ idx = 1
    /\ pc = "select"
    /\ nom_cache = EmptyCache /\ g_cache = EmptyCache
    /\ records = << >>
    /\ nom_result = None /\ google_result = None /\ result_data = None
    /\ fb_idx = 0 /\ requests = << >> /\ g_requests = << >>
    /\ stats = ZeroStats
    /\ elapsed = MaxElapsed /\ stamp_gap = None
    /\ call = NoCall

Next ==
    \/ SelectRecords
    \/ BeginRecord
    \/ BigCityFreeform
    \/ BigCityStructured
    \/ SmallStructured
    \/ Fallback
    \/ StoreNominatim
    \/ GoogleGeocode
    \/ StoreGoogle
    \/ Reconcile

Spec == Init /\ [][Next]_vars

\* a table of rows of two kinds: a large city with source coordinates and a
\* village without, both with municipality
FewRows ==
    { ImportedRow(QueryVazovBurgas, GRAD_BURGAS, BURGAS, Some(1), Some(1)),
      ImportedRow(QueryIzvorBurgas, SELO_IZVOR, BURGAS, None, None) }

InitFew ==
    /\ db \in [1..NumRecords -> FewRows]
    /\ phase = "geocode"
    /\ idx = 1
    /\ pc = "select"
    /\ nom_cache = EmptyCache /\ g_cache = EmptyCache
    /\ records = << >>
    /\ nom_result = None /\ google_result = None /\ result_data = None
    /\ fb_idx = 0 /\ requests = << >> /\ g_requests = << >>
    /\ stats = ZeroStats
    /\ elapsed = MaxElapsed /\ stamp_gap = None
    /\ call = NoCall

\* the pipeline as time passes between its steps
NextTimed == Next \/ Tick

SpecTimed == InitFew /\ [][NextTimed]_vars

\* the pipeline when the geocoding script can be killed and run again
NextCrash == Next \/ Crash

SpecCrash == InitFew /\ [][NextCrash]_vars

\* an UPDATE of the geocoding loop (lines 770-815, 836-869) raises: nothing
\* catches the exception, the script ends at the row it is at
StoreNominatimFails ==
    /\ phase = "geocode" /\ pc = "store_nom"
    /\ phase' = "failed"
    /\ UNCHANGED <<db, idx, pc, nom_cache, g_cache, records, nom_result,
                   google_result, result_data, fb_idx, requests, g_requests,
                   stats, elapsed, stamp_gap, call>>

StoreGoogleFails ==
    /\ phase = "geocode" /\ pc = "store_google"
    /\ phase' = "failed"
    /\ UNCHANGED <<db, idx, pc, nom_cache, g_cache, records, nom_result,
                   google_result, result_data, fb_idx, requests, g_requests,
                   stats, elapsed, stamp_gap, call>>

\* the UPDATE of the reconciliation loop (03_compute_distances.py lines
\* 470-502) raises: the script ends at the row it is at
ReconcileFails ==
    /\ phase = "recon"
    /\ idx <= Len(db)
    /\ phase' = "failed"
    /\ UNCHANGED <<db, idx, pc, nom_cache, g_cache, records, nom_result,
                   google_result, result_data, fb_idx, requests, g_requests,
                   stats, elapsed, stamp_gap, call>>

\* the pipeline when a write to the table can fail
NextWriteFails ==
    Next \/ StoreNominatimFails \/ StoreGoogleFails \/ ReconcileFails

SpecWriteFails == InitFew /\ [][NextWriteFails]_vars

\* the rows reconciliation can find: a geocoded row whose source
\* coordinates are missing, partial, zero or present, and whose provider
\* results are absent or a coordinate with confidence and display text
ReconSettlements == { << >>, GRAD_BURGAS }

ReconSources ==
    { <<None, None>>, <<Some(1), None>>, <<Some(0), Some(1)>>,
      <<Some(1), Some(1)>> }

\* <<lon, lat>>: zero longitude; at the source <<1, 1>>, within the OK
\* distance of it, between the two thresholds, beyond the suspicious one
ReconPoints == { <<0, 1>>, <<1, 1>>, <<2, 1>>, <<3, 2>>, <<10, 1>> }

ReconDisplays == { << >>, DisplayBurgasLatin, DisplaySofia }

NomConfidences == {0, 45, 59, 60, 75}

GoogleConfidences == {40, 60, 80, 95}

NoProvider == [lon |-> None, lat |-> None, confidence |-> 0, text |-> << >>]

NomOutcomes ==
    {NoProvider} \cup
    { [lon |-> Some(pt[1]), lat |-> Some(pt[2]), confidence |-> c,
       text |-> d] :
          pt \in ReconPoints, c \in NomConfidences, d \in ReconDisplays }

GoogleOutcomes ==
    {NoProvider} \cup
    { [lon |-> Some(pt[1]), lat |-> Some(pt[2]), confidence |-> c,
       text |-> d] :
          pt \in ReconPoints, c \in GoogleConfidences, d \in ReconDisplays }

GeocodedRow(settlement, src, nom, g) ==
    [ImportedRow(QueryVazovBurgas, settlement, BURGAS, src[1], src[2])
        EXCEPT !.nom_queried = TRUE,
               !.lon_nom = nom.lon, !.lat_nom = nom.lat,
               !.nom_confidence = nom.confidence,
               !.nom_display_name = nom.text,
               !.g_queried = (g # NoProvider),
               !.lon_g = g.lon, !.lat_g = g.lat,
               !.g_confidence = g.confidence,
               !.g_formatted_address = g.text]

\* the reconciliation script alone, on any geocoded row
InitRecon ==
    /\ \E settlement \in ReconSettlements, src \in ReconSources,
          nom \in NomOutcomes, g \in GoogleOutcomes :
           db = <<GeocodedRow(settlement, src, nom, g)>>
    /\ phase = "recon"
    /\ idx = 1
    /\ Idle
    /\ call = NoCall

NextRecon == Reconcile

SpecRecon == InitRecon /\ [][NextRecon]_vars

---------------------------------------------------------------------------
(* Properties of reconciliation, checked under SpecRecon *)

ReconciledRows == { db[i] : i \in {j \in 1..Len(db) : db[j].reconciled} }

BestPair(r) == <<r.best_lon, r.best_lat>>

SrcPair(r) == <<r.lon_src, r.lat_src>>

NomPair(r) == <<r.lon_nom, r.lat_nom>>

GPair(r) == <<r.lon_g, r.lat_g>>

NoPair == <<None, None>>

Complete(pair) == pair[1] # None /\ pair[2] # None

BestIsNominatim(r) ==
    r.best_provider = "nominatim" /\ BestPair(r) = NomPair(r)

BestIsGoogle(r) ==
    r.best_provider = "google" /\ BestPair(r) = GPair(r)

\* the validity rule in terms of what reconciliation derives and writes
NomIsAvailable(r) ==
    Complete(NomPair(r)) /\ nom_settlement_match(r) # "False"

GIsAvailable(r) ==
    Complete(GPair(r)) /\ g_settlement_match(r) # "False"

NomIsValid(r) ==
    /\ NomIsAvailable(r)
    /\ r.dist_src_nom_m # None /\ Val(r.dist_src_nom_m) <= ok_distance_m
    /\ r.nom_confidence >= min_confidence

GIsValid(r) ==
    /\ GIsAvailable(r)
    /\ r.dist_src_g_m # None /\ Val(r.dist_src_g_m) <= ok_distance_m
    /\ r.g_confidence >= min_confidence

Exceeds(dist, threshold) == dist # None /\ Val(dist) > threshold

ComparisonScore(confidence, dist) ==
    IF Exceeds(dist, suspicious_distance_m) THEN confidence - 30
    ELSE IF Exceeds(dist, ok_distance_m) THEN confidence - 15
    ELSE confidence

\* C2: the best coordinate reconciliation writes is absent or equal to the
\* source, the primary or the secondary coordinate pair of the record, both
\* longitude and latitude from the same one
C2_BestIsOneOfThePairs ==
    \A r \in ReconciledRows :
        \/ BestPair(r) = NoPair
        \/ /\ Complete(BestPair(r))
           /\ BestPair(r) \in {SrcPair(r), NomPair(r), GPair(r)}

\* a record with three different coordinate pairs whose best is the
\* secondary pair
C2_Witness ==
    \E r \in ReconciledRows :
        /\ Complete(SrcPair(r)) /\ Complete(NomPair(r)) /\ Complete(GPair(r))
        /\ r.lat_nom # r.lat_g /\ r.lon_nom # r.lon_g
        /\ SrcPair(r) # GPair(r)
        /\ BestPair(r) = GPair(r)

\* C3 as stated: without any provider coordinate the status is not_found and
\* the best coordinate is the source coordinate tagged 'source' when a
\* source coordinate exists, none when it does not
C3_SourceWhenNotFound ==
    \A r \in ReconciledRows :
        (~Complete(NomPair(r)) /\ ~Complete(GPair(r))) =>
            /\ r.status = "not_found"
            /\ IF Complete(SrcPair(r))
               THEN BestPair(r) = SrcPair(r) /\ r.best_provider = "source"
               ELSE BestPair(r) = NoPair

C6_NoneAvailableFallsBack ==
    \A r \in ReconciledRows :
        (/\ Complete(SrcPair(r))
         /\ (Complete(NomPair(r)) \/ Complete(GPair(r)))
         /\ ~NomIsAvailable(r) /\ ~GIsAvailable(r))
        => /\ r.status = "needs_review"
           /\ \E n \in 1..Len(r.notes) :
                  r.notes[n] = "No settlement validation possible"
           /\ \/ /\ BestIsNominatim(r) /\ Complete(NomPair(r))
                 /\ Complete(GPair(r)) => r.nom_confidence >= r.g_confidence
              \/ /\ BestIsGoogle(r) /\ Complete(GPair(r))
                 /\ Complete(NomPair(r)) => r.g_confidence >= r.nom_confidence

\* both providers in the wrong settlement, the secondary more confident and
\* beyond the suspicious distance: it is the best, with needs_review
C6_Witness ==
    \E r \in ReconciledRows :
        /\ Complete(SrcPair(r))
        /\ Complete(NomPair(r)) /\ Complete(GPair(r))
        /\ nom_settlement_match(r) = "False"
        /\ g_settlement_match(r) = "False"
        /\ r.g_confidence > r.nom_confidence
        /\ Exceeds(r.dist_src_g_m, suspicious_distance_m)
        /\ BestIsGoogle(r) /\ r.status = "needs_review"

\* C7: without a source coordinate and with at least one provider
\* coordinate, the choice is, in this order: the secondary with status ok if
\* it has a coordinate and confidence >= threshold; the primary with status
\* ok if it has a coordinate and confidence >= threshold; the secondary with
\* needs_review if it has a coordinate; the primary with needs_review
C7_NoSourceOrder ==
    \A r \in ReconciledRows :
        (~Complete(SrcPair(r))
         /\ (Complete(NomPair(r)) \/ Complete(GPair(r))))
        => IF Complete(GPair(r)) /\ r.g_confidence >= min_confidence
           THEN BestIsGoogle(r) /\ r.status = "ok"
           ELSE IF Complete(NomPair(r)) /\ r.nom_confidence >= min_confidence
           THEN BestIsNominatim(r) /\ r.status = "ok"
           ELSE IF Complete(GPair(r))
           THEN BestIsGoogle(r) /\ r.status = "needs_review"
           ELSE BestIsNominatim(r) /\ r.status = "needs_review"

\* only the longitude of the source is known, both providers are above the
\* threshold: the secondary is the best
C7_Witness ==
    \E r \in ReconciledRows :
        /\ r.lon_src # None /\ r.lat_src = None
        /\ Complete(NomPair(r)) /\ Complete(GPair(r))
        /\ r.nom_confidence > r.g_confidence
        /\ r.g_confidence >= min_confidence
        /\ BestIsGoogle(r) /\ r.status = "ok"

---------------------------------------------------------------------------
(* Properties of the pipeline, checked under Spec *)

Rows == 1..Len(db)

\* the geocoding loop is at row i, at one of the positions at
InLoopAt(i, at) ==
    phase = "geocode" /\ pc \in at /\ records[idx] = i

\* the loop has decided to call, or has called, the secondary provider for
\* row i
Escalated(i) ==
    db[i].g_queried \/ InLoopAt(i, {"google", "store_google"})

PrimarySucceeded(r) == r.lon_nom # None /\ r.lat_nom # None

\* C1: for every record whose primary result is stored, the secondary
\* provider is queried if and only if the primary result failed or its
\* confidence is strictly below the minimum-confidence threshold; a
\* confidence equal to the threshold does not trigger the call
C1_EscalationRule ==
    \A i \in Rows :
        db[i].nom_queried =>
            (Escalated(i) <=>
                (~PrimarySucceeded(db[i])
                 \/ db[i].nom_confidence < min_confidence))

\* the loop has gone past a record whose primary confidence is exactly the
\* threshold, without a secondary call
C1_Witness ==
    \E i \in Rows :
        /\ db[i].nom_queried /\ PrimarySucceeded(db[i])
        /\ db[i].nom_confidence = min_confidence
        /\ ~InLoopAt(i, {"store_nom", "google", "store_google"})
        /\ ~db[i].g_queried
        /\ \E j \in Rows : db[j].g_queried

InLookup ==
    /\ phase = "geocode"
    /\ pc \in {"big_city_freeform", "big_city_structured", "structured",
               "fallback", "store_nom"}

LastRequest == requests[Len(requests)]

HasToken(r) ==
    /\ settlement_clean_of(r.settlement) # << >>
    /\ normalize_municipality_for_nominatim(r.municipality) # << >>

StructuredRequest(r) ==
    [kind |-> "structured",
     query |-> StructuredTag \o settlement_clean_of(r.settlement) \o <<",">>
               \o normalize_municipality_for_nominatim(r.municipality)
               \o <<",">> \o Bulgaria_en]

FreeformRequest(query) == [kind |-> "freeform", query |-> query]

\* the free-form fallbacks of a row with settlement and municipality: the
\* full address, "settlement, municipality, country", "settlement, country"
FreeformFallbacks(r) ==
    <<FreeformRequest(r.address_query),
      FreeformRequest(settlement_clean_of(r.settlement) \o CommaSpace
                      \o Strip(r.municipality) \o CommaSpace \o Bulgaria_bg),
      FreeformRequest(settlement_clean_of(r.settlement) \o CommaSpace
                      \o Bulgaria_bg)>>

\* request k of the current lookup is the request expected
RequestIs(k, expected) ==
    /\ requests[k].kind = expected.kind
    /\ requests[k].query = expected.query

\* C9: for a settlement that is not a large city, an uncached lookup with a
\* cleaned settlement and a municipality token sends the structured query
\* first and returns its candidate at once, unvalidated; only without a
\* candidate it sends the free-form fallbacks in the order full address,
\* "settlement, municipality, country", "settlement, country", returns the
\* first candidate obtained and sends no query after it
C9_SmallSettlementOrder ==
    (InLookup /\ ~_is_big_city(Current.settlement) /\ HasToken(Current))
    => LET expected == <<StructuredRequest(Current)>>
                       \o FreeformFallbacks(Current)
       IN  /\ Len(requests) <= Len(expected)
           /\ \A k \in 1..Len(requests) :
                 /\ RequestIs(k, expected[k])
                 /\ k < Len(requests) => requests[k].result = None
           /\ (pc = "store_nom" /\ requests # << >>) =>
                 IF LastRequest.result # None
                 THEN nom_result = LastRequest.result
                 ELSE /\ Len(requests) = Len(expected)
                      /\ ~Val(nom_result).success
           /\ (pc # "store_nom" /\ requests # << >>) =>
                 LastRequest.result = None

\* the structured query of a village has yielded an administrative boundary
\* of low confidence, which is returned after this one request
C9_Witness ==
    /\ InLookup /\ ~_is_big_city(Current.settlement) /\ HasToken(Current)
    /\ pc = "store_nom"
    /\ Len(requests) = 1
    /\ requests[1].kind = "structured"
    /\ nom_result = requests[1].result
    /\ Val(nom_result).class = "boundary"
    /\ ~_validate_big_city_result(nom_result, Current.settlement)

\* C10: for a large city, an uncached lookup sends the free-form full
\* address first; a candidate that passes validation is returned at once and
\* nothing else is sent; otherwise, with a municipality token, the
\* structured query is sent next and its candidate is returned; if it yields
\* none, the lookup goes through the common fallback list
C10_BigCityOrder ==
    (InLookup /\ _is_big_city(Current.settlement)) =>
        /\ pc = "big_city_freeform" <=> requests = << >> /\ nom_result = None
        /\ requests # << >> =>
              /\ RequestIs(1, FreeformRequest(Current.address_query))
              /\ IF _validate_big_city_result(requests[1].result,
                                              Current.settlement)
                 THEN /\ Len(requests) = 1
                      /\ pc = "store_nom"
                      /\ nom_result = requests[1].result
                 ELSE HasToken(Current) =>
                      /\ Len(requests) = 1 <=> pc = "big_city_structured"
                      /\ Len(requests) >= 2 =>
                            /\ RequestIs(2, StructuredRequest(Current))
                            /\ IF requests[2].result # None
                               THEN /\ Len(requests) = 2
                                    /\ pc = "store_nom"
                                    /\ nom_result = requests[2].result
                               ELSE /\ Len(requests) = 2 => pc = "fallback"
                                    /\ Len(requests) <= 5
                                    /\ \A k \in 3..Len(requests) :
                                          RequestIs(k,
                                             FreeformFallbacks(Current)[k - 2])

\* a large city whose free-form candidate was an administrative boundary and
\* whose structured query yielded nothing: the third request is the first of
\* the common fallbacks
C10_Witness ==
    /\ InLookup /\ _is_big_city(Current.settlement) /\ HasToken(Current)
    /\ Len(requests) >= 3
    /\ requests[1].result # None
    /\ ~_validate_big_city_result(requests[1].result, Current.settlement)
    /\ requests[2].kind = "structured" /\ requests[2].result = None
    /\ requests[3].kind = "freeform"
    /\ requests[3].query = Current.address_query

---------------------------------------------------------------------------
(* Functions applied on their own: call holds the arguments and, once the   *)
(* function has returned, its result                                        *)

\* no script runs while a function is applied on its own
InitCall ==
    /\ db = << >>
    /\ phase = "call"
    /\ idx = 1
    /\ Idle

\* the function of call returns ret
Return(op, ret) ==
    /\ call.op = op
    /\ call.returned = None
    /\ call' = [call EXCEPT !.returned = Some(ret)]
    /\ UNCHANGED <<db, phase, idx, pc, nom_cache, g_cache, records,
                   nom_result, google_result, result_data, fb_idx, requests,
                   g_requests, stats, elapsed, stamp_gap>>

\* classification tags of Nominatim results
SampleClasses == {"boundary", "building", "highway", "place", "amenity"}

SampleTypes ==
    {"administrative", "yes", "residential", "village", "suburb", "house"}

SampleOsmTypes == {"node", "way", "relation"}

Burgas == <<"^B", "^u", "^r", "^g", "^a", "^s">>

Izvor == <<"^I", "^z", "^v", "^o", "^r">>

\* a result of a free-form request with the given tags, confidence and city
\* field of the address breakdown
Candidate(class, type, confidence, city) ==
    NomSuccess([PlaceBuilding EXCEPT
                   !.class = class, !.type = type,
                   !.address = Some([EmptyAddress EXCEPT !.city = city])],
               confidence, QueryVazovBurgas)

ValidateCalls ==
    { [op |-> "validate", candidate |-> c,
       expected_settlement |-> GRAD_BURGAS, returned |-> None] :
        c \in {None, Some(NomFailure(<<QueryVazovBurgas>>))}
              \cup { Some(Candidate(class, type, confidence, city)) :
                        class \in SampleClasses, type \in SampleTypes,
                        confidence \in {29, 69, 70, 100},
                        city \in {<< >>, Burgas, Izvor} } }

InitValidate == InitCall /\ call \in ValidateCalls

Validate ==
    Return("validate",
           _validate_big_city_result(call.candidate,
                                     call.expected_settlement))

NextValidate == Validate

\* _validate_big_city_result on its own, default big_city_strategy
SpecValidate == InitValidate /\ [][NextValidate]_vars

IsAdministrative(r) == r.type = "administrative" \/ r.class = "boundary"

\* C11: with the default configuration, large-city validation rejects every
\* candidate whose type is 'administrative' or whose class is 'boundary',
\* whatever its confidence and whatever the other checks would say
C11_AdministrativeRejected ==
    (/\ call.op = "validate" /\ call.returned # None
     /\ call.candidate # None
     /\ IsAdministrative(Val(call.candidate)))
    => Val(call.returned) = FALSE

\* a candidate of a specific class, confidence 100, in the expected city,
\* whose type is administrative: rejected
C11_Witness ==
    /\ call.op = "validate" /\ call.returned = Some(FALSE)
    /\ call.candidate # None
    /\ Val(call.candidate).success
    /\ Val(call.candidate).type = "administrative"
    /\ Val(call.candidate).class = "building"
    /\ Val(call.candidate).confidence = 100
    /\ nom_settlement_of(Val(call.candidate).raw_json) = Burgas

---------------------------------------------------------------------------
(* Properties of the primary lookup, checked under Spec *)

\* the queries among seq
QueriesOf(seq) == { seq[k] : k \in 1..Len(seq) }

\* the uncached lookup of the current row has returned
LookupReturned ==
    phase = "geocode" /\ pc = "store_nom" /\ requests # << >>

\* C12 as stated: a request that throws or times out counts as 'no result'
\* and the lookup goes on; when no request of the lookup yields a candidate
\* the lookup returns a failure result (success false, no coordinates,
\* confidence 0) whose list of attempted queries contains every query sent
\* during the lookup
C12_FailureListsEveryQuery ==
    (LookupReturned
     /\ \A k \in 1..Len(requests) : requests[k].result = None)
    => /\ ~Val(nom_result).success
       /\ Val(nom_result).lat = None /\ Val(nom_result).lon = None
       /\ Val(nom_result).confidence = 0
       /\ \A k \in 1..Len(requests) :
             requests[k].query \in QueriesOf(Val(nom_result).queries_tried)

---------------------------------------------------------------------------
(* GeocoderCache on its own: any sequence of set and get *)

\* set and get operations followed
MaxCacheOps == 4

CacheKeys ==
    {nom_cache_key(QueryVazovBurgas, BURGAS), QueryVazovBurgas, QueryIzvor}

\* a success result, another one and the failure result
CacheValues ==
    { NomSuccess(PlaceBuilding, 95, QueryVazovBurgas),
      NomSuccess(PlaceVillage, 40, QueryIzvor),
      NomFailure(<<QueryIzvor>>) }

\* call.last_set: per key, the value of the latest set; call.got: the key
\* and the return value of a get not followed by a set
InitCache ==
    /\ db = << >>
    /\ phase = "call"
    /\ idx = 1
    /\ Idle
    /\ call = [op |-> "cache", ops |-> 0,
               last_set |-> [k \in CacheKeys |-> None], got |-> None]

CacheFrame ==
    UNCHANGED <<db, phase, idx, pc, g_cache, records, nom_result,
                google_result, result_data, fb_idx, requests, g_requests,
                stats, elapsed, stamp_gap>>

CacheSet ==
    /\ call.op = "cache" /\ call.ops < MaxCacheOps
    /\ \E k \in CacheKeys, v \in CacheValues :
          /\ nom_cache' = cache_set(nom_cache, k, v)
          /\ call' = [call EXCEPT !.ops = @ + 1,
                                  !.last_set[k] = Some(v),
                                  !.got = None]
    /\ CacheFrame

CacheGet ==
    /\ call.op = "cache" /\ call.ops < MaxCacheOps
    /\ \E k \in CacheKeys :
          call' = [call EXCEPT !.ops = @ + 1,
                               !.got = Some([key |-> k,
                                             returned |->
                                                cache_get(nom_cache, k)])]
    /\ nom_cache' = nom_cache
    /\ CacheFrame

NextCache == CacheSet \/ CacheGet

SpecCache == InitCache /\ [][NextCache]_vars

RowsOf(cache, k) == { row \in cache : row.address_query = k }

\* C13: after any sequence of set and get, get(k) returns the value of the
\* most recent set(k, v), success or failure alike, or nothing if k was
\* never set; the cache has at most one entry per key, and a set of one key
\* leaves what get returns for the other keys as it was
C13_LastWriteWins ==
    call.op = "cache" =>
        /\ call.got # None =>
              Val(call.got).returned = call.last_set[Val(call.got).key]
        /\ \A k \in CacheKeys :
              /\ Cardinality(RowsOf(nom_cache, k)) <= 1
              /\ cache_get(nom_cache, k) = call.last_set[k]

\* a key set to a success and then to the failure result, another key set
\* meanwhile: get returns the failure result
C13_Witness ==
    /\ call.op = "cache" /\ call.ops = MaxCacheOps
    /\ call.got # None
    /\ Val(call.got).returned # None
    /\ ~Val(Val(call.got).returned).success
    /\ Val(Val(call.got).returned).queries_tried = <<QueryIzvor>>
    /\ \E k \in CacheKeys \ {Val(call.got).key} :
          /\ call.last_set[k] # None
          /\ Val(call.last_set[k]).success
    /\ Cardinality(nom_cache) = 2

---------------------------------------------------------------------------
(* Cache hits of the two geocoders *)

\* the key of the primary lookup of the row the loop is at
CurrentKey == nom_cache_key(Current.address_query, Current.municipality)

\* the response a row of a cache table holds
Loaded(row) == Some(json_loads(row.response_json))

\* C14: a lookup of either provider that finds a row for its key in the
\* cache, a success or a failure, written in this run or in an earlier one,
\* returns what the row holds, sends no request, and leaves both caches and
\* the rate limiter's time stamp as they are
C14_CacheHitFrame ==
    [][ /\ (BeginRecord /\ Current.address_query # << >>
                        /\ RowsOf(nom_cache, CurrentKey) # {})
           => /\ \E row \in RowsOf(nom_cache, CurrentKey) :
                    nom_result' = Loaded(row)
              /\ pc' = "store_nom"
              /\ requests' = << >>
              /\ nom_cache' = nom_cache /\ g_cache' = g_cache
              /\ elapsed' = elapsed /\ stamp_gap' = stamp_gap
        /\ (GoogleGeocode /\ RowsOf(g_cache, Current.address_query) # {})
           => /\ \E row \in RowsOf(g_cache, Current.address_query) :
                    google_result' = Loaded(row)
              /\ pc' = "store_google"
              /\ g_requests' = << >>
              /\ nom_cache' = nom_cache /\ g_cache' = g_cache
              /\ elapsed' = elapsed /\ stamp_gap' = stamp_gap ]_vars

\* the first lookup of a run has returned a failure that an earlier run
\* cached, without a request
C14_Witness ==
    /\ phase = "geocode" /\ pc = "store_nom"
    /\ idx = 1
    /\ stats.nominatim_success + stats.nominatim_failed = 0
    /\ requests = << >>
    /\ ~Val(nom_result).success
    /\ RowsOf(nom_cache, CurrentKey) # {}
    /\ stamp_gap = None

---------------------------------------------------------------------------
(* The cache key of NominatimGeocoder.geocode on its own *)

GORNA_MALINA ==
    <<"^G", "^O", "^R", "^N", "^A", " ", "^M", "^A", "^L", "^I", "^N", "^A">>

GORNA_ORYAHOVICA ==
    <<"^G", "^O", "^R", "^N", "^A", " ",
      "^O", "^R", "^YA", "^H", "^O", "^V", "^I", "^C", "^A">>

obshtina_SREDEC ==
    <<"^o", "^b", "^sht", "^i", "^n", "^a", " ",
      "^S", "^R", "^E", "^D", "^E", "^C">>

\* the column "municipality" of rows of different municipalities; the empty
\* text is a row without municipality
Municipalities ==
    { << >>, BURGAS, GORNA_MALINA, GORNA_ORYAHOVICA, obshtina_SREDEC,
      <<"^V", "^A", "^R", "^N", "^A">> }

KeyCalls ==
    { [op |-> "cache_key", address_query |-> q, municipality |-> m,
       other |-> o, returned |-> None] :
        q \in {QueryVazovBurgas, QueryIzvor},
        m \in Municipalities, o \in Municipalities }

InitKey == InitCall /\ call \in KeyCalls

\* the keys of two lookups of one query, in two municipalities
GeocodeKeys ==
    Return("cache_key",
           <<nom_cache_key(call.address_query, call.municipality),
             nom_cache_key(call.address_query, call.other)>>)

NextKey == GeocodeKeys

SpecKey == InitKey /\ [][NextKey]_vars

\* C15: two primary lookups of the same canonical query in two different
\* municipalities never use the same cache key
C15_MunicipalitiesNeverShareKey ==
    (call.op = "cache_key" /\ call.returned # None
     /\ call.municipality # call.other)
        => Val(call.returned)[1] # Val(call.returned)[2]

---------------------------------------------------------------------------
(* The rate limiter of the primary geocoder *)

\* C16: the start stamps of any two consecutive outbound requests of one
\* primary geocoder, of either strategy, within one lookup or across
\* lookups, are at least the configured interval apart
C16_RequestsSpaced ==
    stamp_gap # None => Val(stamp_gap) >= rate_limit_seconds

\* a structured request has followed a free-form request of the same lookup
\* after exactly the interval, and time has passed since
C16_Witness ==
    /\ Len(requests) = 2
    /\ requests[1].kind = "freeform" /\ requests[2].kind = "structured"
    /\ stamp_gap = Some(rate_limit_seconds)
    /\ elapsed = 1

---------------------------------------------------------------------------
(* The request methods of the two geocoders on their own *)

\* a display text with five commas
DisplaySixParts ==
    <<"1", ",", "^u", "^l", ".", ",", "^c", ",", "^B", ",", "^o", ",", "^B">>

\* an address with every flag the score reads
FullAddress ==
    [EmptyAddress EXCEPT !.house_number = TRUE, !.road = TRUE,
                         !.suburb = TRUE, !.city = Burgas]

\* first results of a Nominatim response: every combination of the sample
\* tags, address completeness, importance (hundredths), geometry kind and
\* comma count
SamplePlaces ==
    { [lat |-> 1, lon |-> 1, class |-> class, type |-> type,
       importance |-> importance, osm_type |-> osm_type,
       display_name |-> display_name, address |-> address] :
        class \in {"building", "boundary", "place"},
        type \in {"yes", "administrative", "village"},
        importance \in {0, 50, 100},
        osm_type \in {"node", "relation"},
        display_name \in {DisplayBurgas, DisplaySixParts},
        address \in {None, Some(EmptyAddress), Some(FullAddress)} }

SampleLocationTypes ==
    {"ROOFTOP", "RANGE_INTERPOLATED", "GEOMETRIC_CENTER", "APPROXIMATE",
     "UNKNOWN"}

\* the queries of the lookup of a row of Burgas: the full address first
SampleQueries ==
    LET queries == queries_to_try(QueryVazovBurgas, GRAD_BURGAS, BURGAS)
    IN  { queries[k] : k \in 1..Len(queries) }

RequestCalls ==
    { [op |-> "freeform", resp |-> resp, query_attempt |-> q,
       address_query |-> QueryVazovBurgas, returned |-> None] :
        resp \in {[kind |-> "error"]}
                 \cup {[kind |-> "ok", place |-> p] : p \in SamplePlaces},
        q \in SampleQueries }
    \cup
    { [op |-> "structured", resp |-> resp, city |-> BURGAS,
       county |-> BURGAS, address_query |-> QueryVazovBurgas,
       returned |-> None] :
        resp \in {[kind |-> "empty"]}
                 \cup {[kind |-> "ok", place |-> p] : p \in SamplePlaces} }
    \cup
    { [op |-> "google", resp |-> resp, returned |-> None] :
        resp \in {[kind |-> "error"], [kind |-> "zero"]}
                 \cup {[kind |-> "ok",
                        result |-> [lat |-> 1, lng |-> 1,
                                    location_type |-> t,
                                    formatted_address |-> DisplayBurgas]] :
                          t \in SampleLocationTypes} }

InitRequest == InitCall /\ call \in RequestCalls

FreeformRequested ==
    Return("freeform",
           freeform_result(call.resp, call.query_attempt,
                           call.address_query))

StructuredRequested ==
    Return("structured",
           structured_result(call.resp, call.city, call.county, Bulgaria_en,
                             call.address_query))

GoogleRequested == Return("google", Some(google_data(call.resp)))

NextRequest == FreeformRequested \/ StructuredRequested \/ GoogleRequested

SpecRequest == InitRequest /\ [][NextRequest]_vars

\* the result a request method has returned, if it has returned one
Returned ==
    IF call.op \in {"freeform", "structured", "google"}
       /\ call.returned # None
    THEN Val(call.returned)
    ELSE None

\* C17: the confidence of every result of either provider lies in 0..100,
\* whatever the tags, address flags, importance, geometry kind and comma
\* count, also after the fallback penalty
C17_ConfidenceInRange ==
    Returned # None => Val(Returned).confidence \in 0..100

\* a score beyond 100 was cut to 100 and the fallback penalty taken off
C17_Witness ==
    /\ Returned # None
    /\ call.op = "freeform"
    /\ call.query_attempt # call.address_query
    /\ BaseScore + TypeScore(call.resp.place.class, call.resp.place.type)
         + AddressScore(call.resp.place.address)
         + ImportanceScore(call.resp.place.importance) > 100
    /\ Val(Returned).confidence = 100 - FallbackPenalty

\* the query a returned primary result was obtained from is the literal full
\* canonical address
FromFullAddress ==
    call.op = "freeform" /\ call.query_attempt = call.address_query

\* C18: a successful primary result from a query that is not the literal
\* full canonical address, the structured query as well as a shortened
\* free-form query, has the scored confidence minus 20, floored at 30; a
\* result from the full address has the scored confidence
C18_PenaltyOffFullAddress ==
    (call.op \in {"freeform", "structured"} /\ Returned # None)
        => LET scored == nominatim_confidence(call.resp.place)
           IN  Val(Returned).confidence =
                   IF FromFullAddress THEN scored
                   ELSE Max(scored - FallbackPenalty, PenaltyFloor)

---------------------------------------------------------------------------
(* The secondary lookup *)

\* C19: an uncached secondary lookup whose request fails in the transport,
\* yields a body that does not parse, or yields a status that is not OK or
\* no results, returns a failure result (success false, no coordinates,
\* confidence 0) and has stored it in the cache under the canonical query
\* string alone
C19_SecondaryFailureCached ==
    (phase = "geocode" /\ pc = "store_google"
     /\ g_requests # << >> /\ g_requests[1].kind # "ok")
        => /\ google_result # None
           /\ ~Val(google_result).success
           /\ Val(google_result).lat = None /\ Val(google_result).lon = None
           /\ Val(google_result).confidence = 0
           /\ RowsOf(g_cache, Current.address_query)
                = {[address_query |-> Current.address_query,
                    response_json |-> json_dumps(Val(google_result))]}
           /\ \A row \in g_cache :
                 \E i \in Rows : row.address_query = db[i].address_query

\* the lookup of a row with municipality got a body that does not parse
C19_Witness ==
    /\ phase = "geocode" /\ pc = "store_google"
    /\ g_requests = <<[kind |-> "malformed"]>>
    /\ Current.municipality # << >>
    /\ cache_get(g_cache, Current.address_query) = Some(GoogleFailure)

---------------------------------------------------------------------------
(* Runs of the geocoding script that are killed and started again *)

\* the escalation rule asks for the secondary provider for the stored
\* primary result of row r
NeedsSecondary(r) ==
    ~PrimarySucceeded(r) \/ r.nom_confidence < min_confidence

\* C20: when the geocoding script is killed at any point and started again
\* until a run completes, every record has its primary result stored and,
\* where the escalation rule asks for the secondary provider, its secondary
\* result stored too
C20_RestartCompletesEveryRecord ==
    phase # "geocode"
        => \A i \in Rows :
              /\ db[i].nom_queried
              /\ NeedsSecondary(db[i]) => db[i].g_queried

---------------------------------------------------------------------------
(* Writes to the table that fail *)

\* the loop of the phase that has ended in a failure was at its last row
AtLastRow ==
    IF pc = "idle" THEN idx = Len(db) ELSE idx = Len(records)

\* C21: a write to the table that fails for one record does not stop the
\* geocoding phase or the reconciliation phase: every selected record is
\* still attempted, in the order of the identifiers
C21_WriteFailureDoesNotStop ==
    phase = "failed" => AtLastRow

---------------------------------------------------------------------------
(* What the large-city path returns *)

\* result is a candidate of the free-form query with the full address that
\* the large-city validation rejects for the row the loop is at
RejectedFreeform(result) ==
    /\ result # None
    /\ Val(result).success
    /\ Val(result).query_used = Current.address_query
    /\ ~_validate_big_city_result(result, Current.settlement)

\* C22: for a settlement configured as a large city, geocode never returns
\* and never caches a free-form full-address candidate that the large-city
\* validation rejected
C22_RejectedNeverReturned ==
    (phase = "geocode" /\ pc = "store_nom"
     /\ _is_big_city(Current.settlement))
        => /\ ~RejectedFreeform(nom_result)
           /\ ~RejectedFreeform(cache_get(nom_cache, CurrentKey))

---------------------------------------------------------------------------
(* scripts/01_import_excel_to_pg.py: the street part of                     *)
(* normalize_address_query on its own                                       *)

LowerChar(c) ==
    IF \E p \in UpperPairs : p[2] = c
    THEN (CHOOSE p \in UpperPairs : p[2] = c)[1]
    ELSE c

\* str.lower()
Lower(s) == [i \in 1..Len(s) |-> LowerChar(s[i])]

\* str.find(sub) + 1: the position of the first occurrence, 0 for none
Find(s, sub) ==
    IF Contains(s, sub)
    THEN CHOOSE i \in 1..Len(s) :
            /\ i + Len(sub) - 1 <= Len(s)
            /\ SubSeq(s, i, i + Len(sub) - 1) = sub
            /\ \A j \in 1..(i - 1) : SubSeq(s, j, j + Len(sub) - 1) # sub
    ELSE 0

\* ['ул.', 'бул.', 'пл.', 'кв.', 'жк.'], in the order of the list
street_markers ==
    << <<"^u", "^l", ".">>, <<"^b", "^u", "^l", ".">>, <<"^p", "^l", ".">>,
       <<"^k", "^v", ".">>, <<"^zh", "^k", ".">> >>

IsDigit(c) == c \in {"0", "1", "2", "3", "4", "5", "6", "7", "8", "9"}

RECURSIVE CountLeading(_, _)
\* the length of the longest prefix of s whose characters are spaces
\* (digits = FALSE) or digits (digits = TRUE)
CountLeading(s, digits) ==
    IF s # << >> /\ (IF digits THEN IsDigit(Head(s)) ELSE IsSpace(Head(s)))
    THEN 1 + CountLeading(Tail(s), digits)
    ELSE 0

Drop(s, n) == SubSeq(s, n + 1, Len(s))

p_k_ == <<"^p", ".", "^k", ".">>

\* the length of the match of ,?\s*п\.к\.\s*\d+ at the start of s, 0 for none
PostalMatch(s) ==
    LET comma == IF s # << >> /\ Head(s) = "," THEN 1 ELSE 0
        sp1 == CountLeading(Drop(s, comma), FALSE)
        at == comma + sp1
        sp2 == CountLeading(Drop(s, at + Len(p_k_)), FALSE)
        digits == CountLeading(Drop(s, at + Len(p_k_) + sp2), TRUE)
    IN  IF StartsWith(Drop(s, at), p_k_) /\ digits > 0
        THEN at + Len(p_k_) + sp2 + digits
        ELSE 0

\* re.sub(r',?\s*п\.к\.\s*\d+', '', s)
RECURSIVE RemovePostalCode(_)
RemovePostalCode(s) ==
    IF s = << >> THEN s
    ELSE IF PostalMatch(s) > 0 THEN RemovePostalCode(Drop(s, PostalMatch(s)))
    ELSE <<Head(s)>> \o RemovePostalCode(Tail(s))

\* re.sub(r'\s+', ' ', s)
RECURSIVE CollapseSpaces(_)
CollapseSpaces(s) ==
    IF s = << >> THEN s
    ELSE IF IsSpace(Head(s))
    THEN <<" ">> \o CollapseSpaces(Drop(s, CountLeading(s, FALSE)))
    ELSE <<Head(s)>> \o CollapseSpaces(Tail(s))

\* lines 85-90: the street part from position at of address
StreetFrom(address, at) ==
    Strip(CollapseSpaces(RemovePostalCode(
        Strip(SubSeq(address, at, Len(address))))))

\* lines 76-92: the loop over the markers, from marker k of the list; the
\* empty text is None
RECURSIVE street_part_from(_, _)
street_part_from(address, k) ==
    IF k > Len(street_markers) THEN << >>
    ELSE IF Contains(Lower(address), street_markers[k])
    THEN StreetFrom(address, Find(Lower(address), street_markers[k]))
    ELSE street_part_from(address, k + 1)

street_part_of(address) ==
    IF address = << >> THEN << >> ELSE street_part_from(address, 1)

\* raw addresses: an optional settlement, an optional street part, an
\* optional second street part and an optional postal code
SampleAddresses ==
    { pre \o first \o second \o postal :
        pre \in { << >>, <<"^g", "^r", ".", " ", "^B", ",", " ">> },
        first \in { << >>,
                    <<"^u", "^l", ".", " ", "^M", "^i", "^r", " ", "5">>,
                    <<"^U", "^L", ".", " ", "^M", "^i", "^r", " ", "5">>,
                    <<"^b", "^u", "^l", ".", " ", "^V", " ", "1">>,
                    <<"^p", "^l", ".", " ", "^S", " ", "2">>,
                    <<"^k", "^v", ".", " ", "^I">>,
                    <<"^zh", "^k", ".", " ", "^L">> },
        second \in { << >>,
                     <<",", " ", "^u", "^l", ".", " ", "^F", " ", "3">>,
                     <<",", " ", " ", "^k", "^v", ".", " ", "^G">> },
        postal \in { << >>,
                     <<",", " ", "^p", ".", "^k", ".", " ", "8", "0", "0", "0">>,
                     <<" ", " ", "^p", ".", "^k", ".", "8", "0", "0", "0">> } }

StreetCalls ==
    { [op |-> "street_part", address |-> a, returned |-> None] :
        a \in SampleAddresses }

InitStreet == InitCall /\ call \in StreetCalls

StreetPart == Return("street_part", street_part_of(call.address))

NextStreet == StreetPart

SpecStreet == InitStreet /\ [][NextStreet]_vars

\* the position of the first occurrence of any street marker in address,
\* compared in lower case; 0 when there is none
FirstMarker(address) ==
    LET found == { Find(Lower(address), street_markers[k]) :
                      k \in 1..Len(street_markers) } \ {0}
    IN  IF found = {} THEN 0
        ELSE CHOOSE p \in found : \A q \in found : p <= q

\* C23: the street component starts at the first occurrence, by position
\* and in any letter case, of any street marker and runs to the end of the
\* address, without the postal code and with whitespace collapsed; without
\* a marker there is none
C23_StreetFromFirstMarker ==
    (call.op = "street_part" /\ call.returned # None)
        => Val(call.returned) =
              IF FirstMarker(call.address) = 0 THEN << >>
              ELSE StreetFrom(call.address, FirstMarker(call.address))

---------------------------------------------------------------------------
(* scripts/03_compute_distances.py: settlement_matches on its own *)

SHUMEN == <<"^SH", "^U", "^M", "^E", "^N">>

STARA_ZAGORA ==
    <<"^S", "^T", "^A", "^R", "^A", " ", "^Z", "^A", "^G", "^O", "^R", "^A">>

\* expected settlements as normalize_settlement_name returns them
SampleSettlements ==
    { BURGAS, SHUMEN, STARA_ZAGORA,
      <<"^I", "^Z", "^V", "^O", "^R">>,
      <<"^C", "^A", "^R", "^E", "^V", "^O">>,
      <<"^YA", "^M", "^B", "^O", "^L">>,
      <<"^V", "^A", "^R", "^N", "^A">> }

\* display texts of the providers, in Cyrillic and in Latin letters
SampleDisplays ==
    { DisplayBurgas, DisplayBurgasLatin, DisplayIzvor, DisplaySofia,
      <<"^SH", "^u", "^m", "^e", "^n", ",", " ", "^B">>,
      <<"S", "h", "u", "m", "e", "n", ",", " ", "B", "G">>,
      <<"S", "t", "a", "r", "a", " ", "Z", "a", "g", "o", "r", "a">>,
      <<"S", "t", "a", "r", "a", "z", "a", "g", "o", "r", "a", ",", " ", "B">>,
      <<"T", "s", "a", "r", "e", "v", "o", ",", " ", "B", "G">>,
      <<"Y", "a", "m", "b", "o", "l">>,
      <<"v", "a", "r", "n", "a", ",", " ", "B", "G">> }

MatchCalls ==
    { [op |-> "settlement_matches", expected_settlement |-> e,
       address_string |-> d, returned |-> None] :
        e \in SampleSettlements, d \in SampleDisplays }

InitMatch == InitCall /\ call \in MatchCalls

Matches ==
    Return("settlement_matches",
           settlement_matches(call.expected_settlement, call.address_string))

NextMatch == Matches

SpecMatch == InitMatch /\ [][NextMatch]_vars

\* text contains form when letter case and, if loose, spaces are ignored
OccursIn(text, form, loose) ==
    IF loose
    THEN Contains(NoSpaces(Upper(text)), NoSpaces(Upper(form)))
    ELSE Contains(Upper(text), Upper(form))

\* the display text contains the expected settlement as written or in its
\* Latin transliteration, in any letter case, or apart from spaces
SettlementOccurs(expected, display) ==
    \E loose \in BOOLEAN :
        \/ OccursIn(display, expected, loose)
        \/ OccursIn(display, cyrillic_to_latin(expected), loose)

\* C24: settlement_matches is true whenever the display text contains, in
\* any letter case, the expected settlement in Cyrillic or in its Latin
\* transliteration under the per-character table, also when they differ
\* only by spaces, and is false when neither form occurs
C24_MatchesEitherScript ==
    (call.op = "settlement_matches" /\ call.returned # None)
        => (Val(call.returned)
              <=> SettlementOccurs(call.expected_settlement,
                                   call.address_string))

---------------------------------------------------------------------------
(* The distances and the outcome reconciliation writes *)

\* C25: each of the three distances written by reconciliation is defined
\* exactly when both of its endpoint coordinates are present, and is null
\* exactly when an endpoint is missing
C25_DistanceIffEndpoints ==
    \A r \in ReconciledRows :
        /\ r.dist_src_nom_m # None
              <=> (Complete(SrcPair(r)) /\ Complete(NomPair(r)))
        /\ r.dist_src_g_m # None
              <=> (Complete(SrcPair(r)) /\ Complete(GPair(r)))
        /\ r.dist_nom_g_m # None
              <=> (Complete(NomPair(r)) /\ Complete(GPair(r)))

\* the provider with coordinate pair, confidence conf, distance to the source
\* dist and settlement match match justifies status ok for row r
JustifiesOk(r, pair, conf, dist, match) ==
    /\ Complete(pair)
    /\ conf >= min_confidence
    /\ Complete(SrcPair(r))
          => /\ dist # None
             /\ Val(dist) <= ok_distance_m
             /\ match # "False"

\* C27: whenever reconciliation assigns status ok, the chosen provider
\* produced a coordinate and its confidence is at least the minimum
\* confidence; with a source coordinate its distance to the source is
\* defined and at most the OK distance and its settlement match is not
\* explicitly false
C27_OkIsJustified ==
    \A r \in ReconciledRows :
        r.status = "ok"
            => \/ /\ r.best_provider = "nominatim"
                  /\ JustifiesOk(r, NomPair(r), r.nom_confidence,
                                 r.dist_src_nom_m, nom_settlement_match(r))
               \/ /\ r.best_provider = "google"
                  /\ JustifiesOk(r, GPair(r), r.g_confidence,
                                 r.dist_src_g_m, g_settlement_match(r))

\* status ok for the secondary provider next to a source coordinate, the
\* primary provider being too far from it
C27_Witness ==
    \E r \in ReconciledRows :
        /\ r.status = "ok" /\ r.best_provider = "google"
        /\ Complete(SrcPair(r))
        /\ Complete(NomPair(r))
        /\ Exceeds(r.dist_src_nom_m, ok_distance_m)
        /\ r.g_confidence = min_confidence

\* the distance to the source that reconciliation wrote for the provider
\* it chose for row r
BestDistance(r) ==
    IF r.best_provider = "nominatim" THEN r.dist_src_nom_m
    ELSE IF r.best_provider = "google" THEN r.dist_src_g_m
    ELSE None

\* the settlement match of the provider chosen for row r
BestMatch(r) ==
    IF r.best_provider = "nominatim" THEN nom_settlement_match(r)
    ELSE IF r.best_provider = "google" THEN g_settlement_match(r)
    ELSE NoneTag

\* the provider chosen for row r is farther from the source coordinate
\* than the suspicious distance
FarFromSource(r) ==
    Complete(SrcPair(r)) /\ Exceeds(BestDistance(r), suspicious_distance_m)

---------------------------------------------------------------------------
(* The fallback penalty *)

\* a shortened free-form query has returned a result
FallbackReturned ==
    /\ call.op = "freeform"
    /\ Returned # None
    /\ call.query_attempt # call.address_query

\* the confidence the candidate of the call gets from the literal
\* full-address query
FullConfidence ==
    Val(freeform_result(call.resp, call.address_query,
                        call.address_query)).confidence

\* C26 as claimed: the confidence reported for a shortened free-form
\* fallback query is at most the confidence the same candidate gets from
\* the full-address query
C26_PenaltyNeverRaises ==
    FallbackReturned => Val(Returned).confidence <= FullConfidence

\* C26: for a candidate whose full-address confidence is at least the floor
\* of 30, the confidence reported for a shortened free-form fallback query
\* is at most the full-address confidence
C26_PenaltyNeverRaisesAboveFloor ==
    (FallbackReturned /\ FullConfidence >= PenaltyFloor)
        => Val(Returned).confidence <= FullConfidence

\* the floor holds the penalised confidence at 30, below the full-address
\* confidence
C26_Witness ==
    /\ FallbackReturned
    /\ FullConfidence > PenaltyFloor
    /\ FullConfidence < PenaltyFloor + FallbackPenalty
    /\ Val(Returned).confidence = PenaltyFloor

---------------------------------------------------------------------------
(* The requests of one primary lookup *)

\* C29: within one uncached primary lookup no request is sent twice: the
\* structured query and each free-form query string are sent at most once,
\* for large cities and other settlements alike
C29_NoRequestTwice ==
    \A i, j \in 1..Len(requests) :
        i # j => <<requests[i].kind, requests[i].query>>
                    # <<requests[j].kind, requests[j].query>>


\* ---------------------------------------------------------------------
\* C30: for every record reconciliation processes, the outputs agree with
\* each other: the status is one of ok, needs_review, mismatch and
\* not_found; the best coordinate is absent (both parts NULL) exactly when
\* the best-provider tag is none, which is exactly when the status is
\* not_found; and a present best coordinate is the coordinate pair of the
\* provider the tag names, and that provider produced a coordinate.
ProviderPair(r) ==
    IF r.best_provider = "nominatim" THEN NomPair(r)
    ELSE IF r.best_provider = "google" THEN GPair(r)
    ELSE NoPair

C30_OutputsConsistent ==
    \A r \in ReconciledRows :
        /\ r.status \in {"ok", "needs_review", "mismatch", "not_found"}
        /\ r.best_provider \in {NoneTag, "nominatim", "google"}
        /\ (BestPair(r) = NoPair) <=> (r.best_provider = NoneTag)
        /\ (r.best_provider = NoneTag) <=> (r.status = "not_found")
        /\ Complete(BestPair(r)) \/ BestPair(r) = NoPair
        /\ Complete(BestPair(r)) =>
               /\ BestPair(r) = ProviderPair(r)
               /\ Complete(ProviderPair(r))

\* a record with a source coordinate and no provider coordinate was
\* reconciled to not_found with no best coordinate and no tag
C30_Witness ==
    \E r \in ReconciledRows :
        /\ Complete(SrcPair(r))
        /\ ~Complete(NomPair(r)) /\ ~Complete(GPair(r))
        /\ r.status = "not_found"
        /\ r.best_provider = NoneTag
        /\ BestPair(r) = NoPair

=============================================================================
